---- MODULE Spec2Model ----
(***************************************************************************)
(* Session / stream orchestration of slopbot: the async Handoff Channel    *)
(* (createAsyncChannel), the Session registry (sessionManager.ts), the     *)
(* thread message handler (handleMessage, handleThreadMessage) and the     *)
(* agent run loop (agentRunner.ts), as one state machine for a single      *)
(* conversation thread.                                                    *)
(***************************************************************************)
EXTENDS Integers, Sequences, FiniteSets, TLC

\* ------------------------------------------------------------------ bounds
MaxPush == 3        \* values pushed on the stand-alone channel
NConsumers == 2     \* consumers iterating the stand-alone channel
MaxReads == 4       \* next() calls made on the stand-alone channel
MaxCloses == 2      \* close() calls made on the stand-alone channel
MaxRuns == 3        \* agent runs started on the thread's Session
MaxMsgs == 3        \* user instructions sent on the thread (the top-level one included)
MaxNumTurns == 2    \* num_turns a turn-limit result reports
MaxTimers == 1      \* deferred aborts pending at one time
NQuestions == 2     \* questions of an interactive prompt
ChainBudget == 3    \* non-routine events of a behaviour of ChainSpec
MaxRare == 1        \* non-routine events: tool gates, failures, turn-limit results, empty prompts

\* config.maxTotalTurns (MAX_TOTAL_TURNS)
MaxTotalTurns == 2

VARIABLES
  hc,        \* the stand-alone channel: [buffer, waiters, closed]
  hNext,     \* number of push() calls made so far
  hPushed,   \* values accepted by push() (pushed while the channel was open)
  hLog,      \* resolutions of next(), in order: <<consumer, value>>, value EOS at done
  hDrained,  \* concatenation of what drain() calls returned
  hReads,    \* number of next() calls made so far
  hCloses,   \* number of close() calls made so far
  hWoken,    \* number of awaiting consumers close() has resolved
  session,   \* the thread's SessionInfo
  store,     \* sessionStore: the thread's durable record [sid, cost]
  runs,      \* the runAgent invocations, by index
  handlers,  \* message handlers suspended in `await buildPrompt`, by kind
  arrived,   \* user instructions that have arrived
  routed,    \* user instructions that have been routed (ids are given in this order)
  timers,    \* pending setTimeout(() => session.abortController.abort(), 0)
  used,      \* number of non-routine events the environment has produced
  pq,        \* the prompt protocol on its own: the PendingQuestion, open while stored
  answers,   \* the answers the last submitted question prompt resolved with
  approval,  \* the plan approval prompt: [pending, text, result, decision]
  errCase,   \* error handling on its own: the last error handled, with its outcome
  objs,      \* background tasks on their own: the Session objects created, by identity
  sessions,  \* the sessions map: the object registered for the thread, or NoRun
  bgTasks,   \* the bgTasks map: the thread's BackgroundTask list
  bgIdCounters, \* the bgIdCounters map: the thread's last task id
  gate,      \* the last canUseTool call on a blocking tool, with what it returned
  bgResult,  \* the last backgroundSession / createForegroundSession call, with the ids assigned so far
  toolCards, \* tool cards on their own: state.toolCards, tool-call-id -> card number
  toolCounts, \* state.toolCounts, tool name -> count
  toolLog,   \* state.toolLog, the tool names in order
  cardSends, \* the thread.send calls of createToolCard still in flight: <<id, card>>
  created,   \* number of createToolCard calls made for each tool-call-id
  observed,  \* number of times each tool-call-id was observed by one of the paths
  lastPath,  \* the path that made the last observation
  state,     \* the flush of streamed text on its own: the StreamState of the run
  now,       \* Date.now(), in ticks
  editTimers, \* the setTimeout timers of scheduleEdit that are armed: [id, due]
  edits,     \* the doEdit calls in flight: [id, kind, len]
  mainPc,    \* where the run's event loop stands
  shown,     \* length of the text the live message shows in the thread
  flushLog   \* what was observed: counts of the turn, the last flush, the last turn

hvars == <<hc, hNext, hPushed, hLog, hDrained, hReads, hCloses, hWoken>>
svars == <<session, store, runs, handlers, arrived, routed, timers, used>>
qvars == <<pq, answers, approval>>
xvars == <<errCase>>
bvars == <<objs, sessions, bgTasks, bgIdCounters, gate, bgResult>>
tvars == <<toolCards, toolCounts, toolLog, cardSends, created, observed, lastPath>>
evars == <<state, now, editTimers, edits, mainPc, shown, flushLog>>
vars == <<hc, hNext, hPushed, hLog, hDrained, hReads, hCloses, hWoken,
          session, store, runs, handlers, arrived, routed, timers, used,
          pq, answers, approval, errCase,
          objs, sessions, bgTasks, bgIdCounters, gate, bgResult,
          toolCards, toolCounts, toolLog, cardSends, created, observed, lastPath,
          state, now, editTimers, edits, mainPc, shown, flushLog>>

\* ------------------------------------------- createAsyncChannel, pure part
EOS == 0    \* the { done: true } iterator result

NewChannel == [buffer |-> <<>>, waiters |-> <<>>, closed |-> FALSE]

\* push(value): returns the channel and the waiter (if any) resolved with value
ChPush(ch, v) ==
  IF ch.closed THEN [ch |-> ch, woke |-> <<>>]
  ELSE IF ch.waiters # <<>>
       THEN [ch |-> [ch EXCEPT !.waiters = Tail(@)], woke |-> <<Head(ch.waiters)>>]
       ELSE [ch |-> [ch EXCEPT !.buffer = Append(@, v)], woke |-> <<>>]

ChCloseKeepWaiters(ch) ==
  IF ch.closed THEN [ch |-> ch, woke |-> <<>>]
  ELSE [ch |-> [ch EXCEPT !.closed = TRUE], woke |-> <<>>]

\* close(): returns the channel and the waiters resolved with done
ChClose(ch) ==
  IF ch.closed THEN [ch |-> ch, woke |-> <<>>]
  ELSE [ch |-> [ch EXCEPT !.closed = TRUE, !.waiters = <<>>], woke |-> ch.waiters]

ChDrainCopy(ch) == [ch |-> ch, items |-> ch.buffer]

\* drain(): buffer.splice(0)
ChDrain(ch) == [ch |-> [ch EXCEPT !.buffer = <<>>], items |-> ch.buffer]

\* next() called by consumer c: res is "value", "done" or "pending"
ChNext(ch, c) ==
  IF ch.buffer # <<>>
  THEN [ch |-> [ch EXCEPT !.buffer = Tail(@)], res |-> "value", value |-> Head(ch.buffer)]
  ELSE IF ch.closed
       THEN [ch |-> ch, res |-> "done", value |-> EOS]
       ELSE [ch |-> [ch EXCEPT !.waiters = Append(@, c)], res |-> "pending", value |-> EOS]

\* ------------------------------------------- the channel on its own (ChanSpec)
Consumers == 1..NConsumers

SeqToSet(s) == {s[i] : i \in 1..Len(s)}

RECURSIVE LogAll(_, _)
LogAll(cs, v) == IF cs = <<>> THEN <<>> ELSE <<<<Head(cs), v>>>> \o LogAll(Tail(cs), v)

HInit ==
  /\ hc = NewChannel
  /\ hNext = 0
  /\ hPushed = <<>>
  /\ hLog = <<>>
  /\ hDrained = <<>>
  /\ hReads = 0
  /\ hCloses = 0
  /\ hWoken = 0

HPush ==
  /\ hNext < MaxPush
  /\ LET v == hNext + 1
         r == ChPush(hc, v)
     IN /\ hNext' = v
        /\ hc' = r.ch
        /\ hPushed' = IF hc.closed THEN hPushed ELSE Append(hPushed, v)
        /\ hLog' = hLog \o LogAll(r.woke, v)
  /\ UNCHANGED <<svars, qvars, xvars, bvars, tvars, evars, hDrained, hReads, hCloses, hWoken>>

HClose ==
  /\ hCloses < MaxCloses
  /\ LET r == ChClose(hc)
     IN /\ hc' = r.ch
        /\ hLog' = hLog \o LogAll(r.woke, EOS)
        /\ hWoken' = hWoken + Len(r.woke)
  /\ hCloses' = hCloses + 1
  /\ UNCHANGED <<svars, qvars, xvars, bvars, tvars, evars, hNext, hPushed, hDrained, hReads>>

\* drain() after close(), as the run teardown calls it
HDrain ==
  /\ hc.closed
  /\ hc.buffer # <<>>
  /\ LET r == ChDrain(hc)
     IN /\ hc' = r.ch
        /\ hDrained' = hDrained \o r.items
  /\ UNCHANGED <<svars, qvars, xvars, bvars, tvars, evars, hNext, hPushed, hLog, hReads, hCloses, hWoken>>

\* a consumer with no call outstanding calls next()
HNext(c) ==
  /\ hReads < MaxReads
  /\ c \notin SeqToSet(hc.waiters)
  /\ LET r == ChNext(hc, c)
     IN /\ hc' = r.ch
        /\ hLog' = IF r.res = "pending" THEN hLog ELSE Append(hLog, <<c, r.value>>)
  /\ hReads' = hReads + 1
  /\ UNCHANGED <<svars, qvars, xvars, bvars, tvars, evars, hNext, hPushed, hDrained, hCloses, hWoken>>

\* ---------------------------------------------------- Session and run state
Runs == 1..MaxRuns
NoRun == 0     \* a null query / inputChannel / pending prompt reference
NoSid == 0     \* sessionId === null

\* prompts: user instructions carry the order they were routed in; `empty` is
\* message.content === "" with nothing saved by buildPrompt (a falsy string)
UserPrompt(n, e) == [kind |-> "user", id |-> n, empty |-> e]
PlanPrompt == [kind |-> "plan", id |-> 0, empty |-> FALSE]
ContinuePrompt == [kind |-> "cont", id |-> 0, empty |-> FALSE]
NoPrompt == [kind |-> "none", id |-> 0, empty |-> TRUE]

\* createSession(): the fields the orchestration reads or writes.
\* abortSignaled is session.abortController.signal.aborted.
\* cleared records that the sessionId was nulled by a reset or by an error
\* (unrecognized session, context overflow) and not set again since.
\* resident is membership of the `sessions` map; an evicted Session keeps the
\* sessionId and totalCost it had when evicted.
\* chain counts the runs started in a row with the synthetic continuation
\* instruction, up to the run now active.
NewSession ==
  [sessionId |-> NoSid, busy |-> FALSE, query |-> NoRun, inputChannel |-> NoRun,
   messageQueue |-> <<>>, pendingQuestion |-> NoRun, pendingPlanApproval |-> NoRun,
   clearContextOnComplete |-> FALSE, planToImplement |-> "null",
   turnCount |-> 0, autoResume |-> FALSE, abortSignaled |-> FALSE, cleared |-> FALSE,
   totalCost |-> 0, resident |-> TRUE, chain |-> 0]

\* sessionStore with no entry for the thread (getPersistedCost gives 0)
NoRecord == [sid |-> NoSid, cost |-> 0]

\* one runAgent invocation. pc: none, starting (await sendStatus), streaming,
\* question / plan (canUseTool awaiting the user), teardown (the awaits of the
\* finally block), done, failed (the promise rejected out of the finally block).
\* ctl: the query's cancellation state: none (no query yet), live (created with
\* the controller that is still session.abortController), stale (the Session has
\* a newer controller), cancelled (its controller aborted, or query.close()).
\* Fields no later step reads are put back to their initial values.
\* wasReset records a resetSession during the run, limit that the run's result
\* was the turn limit with the tally below the ceiling.
IdleRun ==
  [pc |-> "none", prompt |-> NoPrompt, resume |-> NoSid, inited |-> FALSE,
   resulted |-> FALSE, limit |-> FALSE, ctl |-> "none",
   chan |-> NewChannel, plan |-> "null", wasReset |-> FALSE, lost |-> FALSE]

DoneRun == [IdleRun EXCEPT !.pc = "done", !.chan = [NewChannel EXCEPT !.closed = TRUE]]

ActivePcs == {"starting", "streaming", "question", "plan", "teardown"}
StreamPcs == {"streaming", "question", "plan"}
Active(r) == runs[r].pc \in ActivePcs
ActiveRuns == {r \in Runs : Active(r)}
Cancelled(r) == runs[r].ctl = "cancelled"

FreeRuns == {r \in Runs : runs[r].pc = "none"}
NextRun == IF FreeRuns = {} THEN NoRun ELSE CHOOSE r \in FreeRuns : \A q \in FreeRuns : r <= q

\* session.abortController.abort()
AbortSignal(rs) ==
  [r \in Runs |-> IF rs[r].ctl = "live" THEN [rs[r] EXCEPT !.ctl = "cancelled"] ELSE rs[r]]

\* session.abortController = new AbortController()
FreshController(rs) ==
  [r \in Runs |-> IF rs[r].ctl = "live" THEN [rs[r] EXCEPT !.ctl = "stale"] ELSE rs[r]]

\* session.inputChannel.close() when the reference is not null
CloseChannelOf(rs, c) ==
  IF c = NoRun THEN rs ELSE [rs EXCEPT ![c].chan = ChClose(rs[c].chan).ch]

\* session.query.close() when the reference is not null
CloseQueryOf(rs, q) ==
  IF q # NoRun /\ rs[q].pc \in StreamPcs THEN [rs EXCEPT ![q].ctl = "cancelled"] ELSE rs

\* the run enters its finally block: only inited, chan, plan are read from here on
ToTeardown(run) ==
  [run EXCEPT !.pc = "teardown", !.resume = NoSid, !.resulted = FALSE, !.ctl = "none"]

\* runAgent up to its first await: busy, a new channel registered on the Session
StartRun(s, rs, r, p) ==
  [s |-> [s EXCEPT !.busy = TRUE, !.inputChannel = r,
                   !.chain = IF p = ContinuePrompt THEN @ + 1 ELSE 0],
   rs |-> [rs EXCEPT ![r] = [IdleRun EXCEPT !.pc = "starting", !.prompt = p]]]

SInit ==
  /\ session = NewSession
  /\ store = NoRecord
  /\ runs = [r \in Runs |-> IdleRun]
  /\ handlers = [new |-> 1, busy |-> 0, idle |-> 0]
  /\ arrived = 1
  /\ routed = 0
  /\ timers = 0
  /\ used = 0

\* ------------------------------------------------ the thread message handler
\* handleNewMessage after `await buildPrompt`: the thread's first run
HandlerNewDone ==
  /\ handlers.new > 0
  /\ NextRun # NoRun
  /\ \E e \in BOOLEAN :
       LET st == StartRun(session, runs, NextRun, UserPrompt(routed + 1, e))
       IN /\ session' = st.s
          /\ runs' = st.rs
          /\ e => used < MaxRare
          /\ used' = IF e THEN used + 1 ELSE used
  /\ handlers' = [handlers EXCEPT !.new = @ - 1]
  /\ routed' = routed + 1
  /\ UNCHANGED <<hvars, qvars, xvars, bvars, tvars, evars, store, arrived, timers>>

NoPromptPending ==
  session.pendingPlanApproval = NoRun /\ session.pendingQuestion = NoRun

\* handleThreadMessage, restore step: the Session the handler goes on with. A
\* thread with no Session in the registry gets one rebuilt from the durable
\* record when the record has a sessionId; otherwise the handler returns.
Rehydrated(s, st) ==
  IF s.resident \/ st.sid = NoSid THEN s
  ELSE [NewSession EXCEPT !.sessionId = st.sid, !.totalCost = st.cost]

\* cleanupStaleSessions evicting the thread's Session once it has been inactive
\* for the timeout: nothing is running and no handler is suspended on it
Evict ==
  /\ session.resident
  /\ ActiveRuns = {}
  /\ handlers = [new |-> 0, busy |-> 0, idle |-> 0]
  /\ timers = 0
  /\ session' = [NewSession EXCEPT !.resident = FALSE,
                                   !.sessionId = session.sessionId,
                                   !.totalCost = session.totalCost]
  /\ runs' = CloseQueryOf(CloseChannelOf(AbortSignal(runs), session.inputChannel),
                          session.query)
  /\ UNCHANGED <<hvars, qvars, xvars, bvars, tvars, evars, store, handlers, arrived, routed, timers, used>>

\* cleanupStaleSessions evicting the Session while a run is active on it: the
\* run and what it starts go on using the evicted object. A thread message that
\* would rebuild a second Session object is taken only once those have ended.
EvictBusy ==
  /\ session.resident
  /\ ActiveRuns # {}
  /\ handlers = [new |-> 0, busy |-> 0, idle |-> 0]
  /\ timers = 0
  /\ session' = [session EXCEPT !.resident = FALSE, !.inputChannel = NoRun,
                                !.query = NoRun, !.abortSignaled = TRUE]
  /\ runs' = CloseQueryOf(CloseChannelOf(AbortSignal(runs), session.inputChannel),
                          session.query)
  /\ UNCHANGED <<hvars, qvars, xvars, bvars, tvars, evars, store, handlers, arrived, routed, timers, used>>

\* handleThreadMessage with no Session and no durable sessionId: "Session not found"
FollowUpNotFound ==
  /\ arrived < MaxMsgs
  /\ ~session.resident
  /\ store.sid = NoSid
  /\ arrived' = arrived + 1
  /\ UNCHANGED <<hvars, qvars, xvars, bvars, tvars, evars, session, store, runs, handlers, routed, timers, used>>

\* a variant of case B that does not look at the pending prompts first
FollowUpBusyIgnoringPrompt ==
  /\ arrived < MaxMsgs
  /\ session.resident
  /\ session.busy
  /\ arrived' = arrived + 1
  /\ handlers' = [handlers EXCEPT !.busy = @ + 1]
  /\ UNCHANGED <<hvars, qvars, xvars, bvars, tvars, evars, session, store, runs, routed, timers, used>>

\* handleThreadMessage, case B up to `await buildPrompt`
FollowUpBusy ==
  /\ arrived < MaxMsgs
  /\ session.resident
  /\ NoPromptPending
  /\ session.busy
  /\ arrived' = arrived + 1
  /\ handlers' = [handlers EXCEPT !.busy = @ + 1]
  /\ UNCHANGED <<hvars, qvars, xvars, bvars, tvars, evars, session, store, runs, routed, timers, used>>

\* handleThreadMessage, case C with no sessionId: "Session expired."
FollowUpExpired ==
  /\ arrived < MaxMsgs
  /\ session.resident
  /\ NoPromptPending
  /\ ~session.busy
  /\ session.sessionId = NoSid
  /\ arrived' = arrived + 1
  /\ UNCHANGED <<hvars, qvars, xvars, bvars, tvars, evars, session, store, runs, handlers, routed, timers, used>>

\* handleThreadMessage, case C up to `await buildPrompt`
FollowUpIdle ==
  /\ arrived < MaxMsgs
  /\ session.resident \/ ActiveRuns = {}
  /\ NoPromptPending \/ ~session.resident
  /\ LET s == Rehydrated(session, store)
     IN /\ s.resident
        /\ ~s.busy
        /\ s.sessionId # NoSid
        /\ session' = s
  /\ arrived' = arrived + 1
  /\ handlers' = [handlers EXCEPT !.idle = @ + 1]
  /\ UNCHANGED <<hvars, qvars, xvars, bvars, tvars, evars, store, runs, routed, timers, used>>

\* the push/queue choice of case B, given the prompt buildPrompt returned
\* toSDKMessages: one turn of the loop over the channel, for the item text read
\* while the Session's remote id is sid
toSDKMessages(sid, text) ==
  IF sid = NoSid
  THEN [yielded |-> FALSE]
  ELSE [yielded |-> TRUE,
        message |-> [type |-> "user", content |-> text, session_id |-> sid]]

RouteBusy(s, rs, p) ==
  IF s.inputChannel # NoRun /\ ~rs[s.inputChannel].chan.closed
  THEN LET pushed == ChPush(rs[s.inputChannel].chan, p)
       IN [s |-> s,
           rs |-> [rs EXCEPT ![s.inputChannel].chan = pushed.ch,
                             ![s.inputChannel].lost =
                               \/ @
                               \/ /\ pushed.woke # <<>>
                                  /\ ~toSDKMessages(s.sessionId, p).yielded]]
  ELSE [s |-> [s EXCEPT !.messageQueue = Append(@, p)], rs |-> rs]

\* handleThreadMessage, case B after `await buildPrompt`
HandlerBusyDone ==
  /\ handlers.busy > 0
  /\ \E e \in BOOLEAN :
       LET rt == RouteBusy(session, runs, UserPrompt(routed + 1, e))
       IN /\ session' = rt.s
          /\ runs' = rt.rs
          /\ e => used < MaxRare
          /\ used' = IF e THEN used + 1 ELSE used
  /\ handlers' = [handlers EXCEPT !.busy = @ - 1]
  /\ routed' = routed + 1
  /\ UNCHANGED <<hvars, qvars, xvars, bvars, tvars, evars, store, arrived, timers>>

\* handleThreadMessage, case C after `await buildPrompt`: runAgent
HandlerIdleDone ==
  /\ handlers.idle > 0
  /\ NextRun # NoRun
  /\ \E e \in BOOLEAN :
       LET st == StartRun(session, runs, NextRun, UserPrompt(routed + 1, e))
       IN /\ session' = st.s
          /\ runs' = st.rs
          /\ e => used < MaxRare
          /\ used' = IF e THEN used + 1 ELSE used
  /\ handlers' = [handlers EXCEPT !.idle = @ - 1]
  /\ routed' = routed + 1
  /\ UNCHANGED <<hvars, qvars, xvars, bvars, tvars, evars, store, arrived, timers>>

\* a variant of the abort that leaves the pending queue as it is
AbortBusyKeepQueue(s, rs) ==
  LET rs1 == AbortSignal(rs)
      rs2 == CloseChannelOf(rs1, s.inputChannel)
      rs3 == CloseQueryOf(rs2, s.query)
  IN [s |-> [s EXCEPT !.autoResume = FALSE,
                      !.pendingQuestion = NoRun, !.pendingPlanApproval = NoRun,
                      !.abortSignaled = FALSE],
      rs |-> FreshController(rs3)]

\* handleCommand, case "abort", on a busy Session
AbortBusy(s, rs) ==
  LET rs1 == AbortSignal(rs)
      rs2 == CloseChannelOf(rs1, s.inputChannel)
      rs3 == CloseQueryOf(rs2, s.query)
  IN [s |-> [s EXCEPT !.messageQueue = <<>>, !.autoResume = FALSE,
                      !.pendingQuestion = NoRun, !.pendingPlanApproval = NoRun,
                      !.abortSignaled = FALSE],
      rs |-> FreshController(rs3)]

\* !abort in the thread
CmdAbort ==
  /\ session.resident \/ ActiveRuns = {}
  /\ LET s == Rehydrated(session, store)
     IN IF ~s.resident \/ ~s.busy
        THEN session' = s /\ runs' = runs
        ELSE LET a == AbortBusy(s, runs)
             IN session' = a.s /\ runs' = a.rs
  /\ UNCHANGED <<hvars, qvars, xvars, bvars, tvars, evars, store, handlers, arrived, routed, timers, used>>

\* resetSession(threadId) for a Session in the registry
ResetSession(s, rs) ==
  LET rs1 == AbortSignal(rs)
      rs2 == CloseChannelOf(rs1, s.inputChannel)
      rs3 == CloseQueryOf(rs2, s.query)
      rs4 == FreshController(rs3)
  IN [s |-> [s EXCEPT !.inputChannel = NoRun, !.query = NoRun, !.sessionId = NoSid,
                      !.abortSignaled = FALSE, !.pendingQuestion = NoRun,
                      !.pendingPlanApproval = NoRun, !.busy = FALSE,
                      !.clearContextOnComplete = FALSE, !.planToImplement = "null",
                      !.turnCount = 0, !.autoResume = FALSE, !.messageQueue = <<>>,
                      !.cleared = TRUE],
      rs |-> [r \in Runs |-> IF rs4[r].pc \in ActivePcs
                             THEN [rs4[r] EXCEPT !.wasReset = TRUE] ELSE rs4[r]]]

\* !clear in the thread
CmdClear ==
  /\ session.resident \/ ActiveRuns = {}
  /\ LET s == Rehydrated(session, store)
         a == ResetSession(s, runs)
     IN IF s.resident
        THEN session' = a.s /\ runs' = a.rs /\ store' = NoRecord
        ELSE UNCHANGED <<session, runs, store>>
  /\ UNCHANGED <<hvars, qvars, xvars, bvars, tvars, evars, handlers, arrived, routed, timers, used>>

\* ------------------------------------------------ agentRunner.ts: runAgent
\* after `await sendStatus`: query() is created with the Session's current
\* sessionId and abortController, and registered as session.query
CreateQuery(r) ==
  /\ runs[r].pc = "starting"
  /\ runs' = [runs EXCEPT ![r].pc = "streaming",
                          ![r].prompt = NoPrompt,
                          ![r].resume = session.sessionId,
                          ![r].ctl = IF session.abortSignaled THEN "cancelled" ELSE "live"]
  /\ session' = [session EXCEPT !.query = r]
  /\ UNCHANGED <<hvars, qvars, xvars, bvars, tvars, evars, store, handlers, arrived, routed, timers, used>>

\* the for-await loop may take another SDK message
Streaming(r) == runs[r].pc = "streaming" /\ ~Cancelled(r) /\ ~runs[r].resulted

\* system/init: setSessionId persists the id the runtime reports
EvInit(r) ==
  /\ Streaming(r)
  /\ ~runs[r].inited
  /\ LET sid == IF runs[r].resume # NoSid THEN runs[r].resume ELSE r
     IN IF session.resident
        THEN /\ session' = [session EXCEPT !.sessionId = sid, !.cleared = FALSE]
             /\ store' = [sid |-> sid, cost |-> store.cost]
        ELSE UNCHANGED <<session, store>>
  /\ runs' = [runs EXCEPT ![r].inited = TRUE, ![r].resume = NoSid]
  /\ UNCHANGED <<hvars, qvars, xvars, bvars, tvars, evars, handlers, arrived, routed, timers, used>>

\* canUseTool for AskUserQuestion on a foreground Session
EvAskQuestion(r) ==
  /\ Streaming(r)
  /\ runs[r].inited
  /\ used < MaxRare
  /\ used' = used + 1
  /\ session' = [session EXCEPT !.pendingQuestion = r]
  /\ runs' = [runs EXCEPT ![r].pc = "question"]
  /\ UNCHANGED <<hvars, qvars, xvars, bvars, tvars, evars, store, handlers, arrived, routed, timers>>

\* canUseTool for AskUserQuestion whose input has no questions: allowed at once,
\* no prompt is stored and the run goes on
EvAskNoQuestions(r) ==
  /\ Streaming(r)
  /\ runs[r].inited
  /\ used < MaxRare
  /\ used' = used + 1
  /\ UNCHANGED <<hvars, qvars, xvars, bvars, tvars, evars, session, store, runs, handlers, arrived, routed, timers>>

\* canUseTool for ExitPlanMode on a foreground Session; plan is findLatestPlan()
EvExitPlanMode(r, plan) ==
  /\ Streaming(r)
  /\ runs[r].inited
  /\ used < MaxRare
  /\ used' = used + 1
  /\ session' = [session EXCEPT !.pendingPlanApproval = r]
  /\ runs' = [runs EXCEPT ![r].pc = "plan", ![r].plan = plan]
  /\ UNCHANGED <<hvars, qvars, xvars, bvars, tvars, evars, store, handlers, arrived, routed, timers>>

\* handleThreadMessage case A2 with "submit": pq.resolve, then the gate continues
ReplyQuestion ==
  /\ session.resident
  /\ session.pendingPlanApproval = NoRun
  /\ session.pendingQuestion # NoRun
  /\ LET r == session.pendingQuestion
     IN runs' = IF runs[r].pc = "question" THEN [runs EXCEPT ![r].pc = "streaming"] ELSE runs
  /\ session' = [session EXCEPT !.pendingQuestion = NoRun]
  /\ UNCHANGED <<hvars, qvars, xvars, bvars, tvars, evars, store, handlers, arrived, routed, timers, used>>

\* handleThreadMessage case A1: resolve(parsePlanApproval(..)), then the gate continues
ReplyPlan(res) ==
  /\ session.resident
  /\ session.pendingPlanApproval # NoRun
  /\ res = "clear" => timers < MaxTimers
  /\ LET r == session.pendingPlanApproval
     IN /\ runs' = IF runs[r].pc = "plan"
                   THEN [runs EXCEPT ![r].pc = "streaming", ![r].plan = "null"]
                   ELSE [runs EXCEPT ![r].plan = "null"]
        /\ session' = IF res = "clear"
                      THEN [session EXCEPT !.pendingPlanApproval = NoRun,
                                           !.clearContextOnComplete = TRUE,
                                           !.planToImplement = runs[r].plan]
                      ELSE [session EXCEPT !.pendingPlanApproval = NoRun]
  /\ timers' = IF res = "clear" THEN timers + 1 ELSE timers
  /\ UNCHANGED <<hvars, qvars, xvars, bvars, tvars, evars, store, handlers, arrived, routed, used>>

\* the deferred abort of approve-and-clear-context fires
TimerAbort ==
  /\ timers > 0
  /\ timers' = timers - 1
  /\ runs' = AbortSignal(runs)
  /\ session' = [session EXCEPT !.abortSignaled = TRUE]
  /\ UNCHANGED <<hvars, qvars, xvars, bvars, tvars, evars, store, handlers, arrived, routed, used>>

\* addCost(threadId, total_cost_usd), every result costing one unit
AddCost(s) == IF s.resident THEN [s EXCEPT !.totalCost = @ + 1] ELSE s

\* persistCost as addCost calls it: only an existing entry is updated
PersistCost(st, s) ==
  IF s.resident /\ st.sid # NoSid THEN [st EXCEPT !.cost = s.totalCost + 1] ELSE st

\* result, subtype success
EvResultSuccess(r) ==
  /\ Streaming(r)
  /\ runs[r].inited
  /\ session' = [AddCost(session) EXCEPT !.turnCount = 0]
  /\ store' = PersistCost(store, session)
  /\ runs' = [runs EXCEPT ![r].resulted = TRUE]
  /\ UNCHANGED <<hvars, qvars, xvars, bvars, tvars, evars, handlers, arrived, routed, timers, used>>

\* a variant of the turn-limit result that takes the reported turns as the
\* tally instead of adding them to it
EvResultMaxTurnsNoTally(r, n, ok) ==
  /\ Streaming(r)
  /\ runs[r].inited
  /\ used < MaxRare
  /\ used' = used + 1
  /\ session.turnCount + n <= MaxTotalTurns + MaxNumTurns
  /\ LET tc == n
     IN IF tc >= MaxTotalTurns
        THEN /\ session' = [AddCost(session) EXCEPT !.turnCount = IF ok THEN 0 ELSE tc]
             /\ runs' = IF ok THEN [runs EXCEPT ![r].resulted = TRUE]
                              ELSE [runs EXCEPT ![r] = ToTeardown(@)]
        ELSE /\ ok
             /\ session' = [AddCost(session) EXCEPT !.turnCount = tc, !.autoResume = TRUE]
             /\ runs' = [runs EXCEPT ![r].resulted = TRUE, ![r].limit = TRUE]
  /\ store' = PersistCost(store, session)
  /\ UNCHANGED <<hvars, qvars, xvars, bvars, tvars, evars, handlers, arrived, routed, timers>>

\* a variant of the turn-limit result that requests auto-resume at the ceiling too
EvResultMaxTurnsAlwaysResume(r, n, ok) ==
  /\ Streaming(r)
  /\ runs[r].inited
  /\ used < MaxRare
  /\ used' = used + 1
  /\ session.turnCount + n <= MaxTotalTurns + MaxNumTurns
  /\ ok
  /\ session' = [AddCost(session) EXCEPT !.turnCount = @ + n, !.autoResume = TRUE]
  /\ runs' = [runs EXCEPT ![r].resulted = TRUE]
  /\ store' = PersistCost(store, session)
  /\ UNCHANGED <<hvars, qvars, xvars, bvars, tvars, evars, handlers, arrived, routed, timers>>

\* result, subtype error_max_turns, reporting n turns; ok is the outcome of the
\* ceiling notice's thread.send
EvResultMaxTurns(r, n, ok) ==
  /\ Streaming(r)
  /\ runs[r].inited
  /\ used < MaxRare
  /\ used' = used + 1
  /\ session.turnCount + n <= MaxTotalTurns + MaxNumTurns
  /\ LET tc == session.turnCount + n
     IN IF tc >= MaxTotalTurns
        THEN /\ session' = [AddCost(session) EXCEPT !.turnCount = IF ok THEN 0 ELSE tc]
             /\ runs' = IF ok THEN [runs EXCEPT ![r].resulted = TRUE]
                              ELSE [runs EXCEPT ![r] = ToTeardown(@)]
        ELSE /\ ok
             /\ session' = [AddCost(session) EXCEPT !.turnCount = tc, !.autoResume = TRUE]
             /\ runs' = [runs EXCEPT ![r].resulted = TRUE, ![r].limit = TRUE]
  /\ store' = PersistCost(store, session)
  /\ UNCHANGED <<hvars, qvars, xvars, bvars, tvars, evars, handlers, arrived, routed, timers>>

\* what an error class does to the Session, in handleMessage's result case and
\* in runAgent's catch
ErrorEffect(s, cls) ==
  IF cls = "noconv" THEN [s EXCEPT !.sessionId = NoSid, !.cleared = TRUE]
  ELSE IF cls = "overflow"
  THEN [s EXCEPT !.sessionId = NoSid, !.turnCount = 0, !.cleared = TRUE]
  ELSE s

\* result, any other subtype; ok is the outcome of the notice's thread.send
EvResultError(r, cls, ok) ==
  /\ Streaming(r)
  /\ used < MaxRare
  /\ used' = used + 1
  /\ session' = ErrorEffect(session, cls)
  /\ store' = IF cls \in {"noconv", "overflow"} THEN NoRecord ELSE store
  /\ runs' = IF ok THEN [runs EXCEPT ![r].resulted = TRUE]
                   ELSE [runs EXCEPT ![r] = ToTeardown(@)]
  /\ UNCHANGED <<hvars, qvars, xvars, bvars, tvars, evars, handlers, arrived, routed, timers>>

\* the stream ends after its result: normal completion
StreamEnd(r) ==
  /\ runs[r].pc = "streaming"
  /\ runs[r].resulted
  /\ runs' = [runs EXCEPT ![r] = ToTeardown(@)]
  /\ UNCHANGED <<hvars, qvars, xvars, bvars, tvars, evars, session, store, handlers, arrived, routed, timers, used>>

\* the aborted or closed query ends the loop (catch: "abort" is only logged)
ExitAbort(r) ==
  /\ runs[r].pc \in StreamPcs
  /\ Cancelled(r)
  /\ runs' = [runs EXCEPT ![r] = ToTeardown(@)]
  /\ UNCHANGED <<hvars, qvars, xvars, bvars, tvars, evars, session, store, handlers, arrived, routed, timers, used>>

\* the query throws: catch, by error class ("overflow" or "other")
ThrowError(r, cls) ==
  /\ runs[r].pc \in StreamPcs
  /\ used < MaxRare
  /\ used' = used + 1
  /\ session' = ErrorEffect(session, cls)
  /\ store' = IF cls = "overflow" THEN NoRecord ELSE store
  /\ runs' = [runs EXCEPT ![r] = ToTeardown(@)]
  /\ UNCHANGED <<hvars, qvars, xvars, bvars, tvars, evars, handlers, arrived, routed, timers>>

\* streamInput(toSDKMessages(inputChannel)): the runtime asks for the next value
ConsumerNext(r) ==
  /\ runs[r].pc \in StreamPcs
  /\ ~Cancelled(r)
  /\ \/ runs[r].chan.buffer # <<>>
     \/ ~runs[r].chan.closed /\ runs[r].chan.waiters = <<>>
  /\ LET n == ChNext(runs[r].chan, r)
     IN runs' = [runs EXCEPT ![r].chan = n.ch,
                             ![r].lost =
                               \/ @
                               \/ /\ n.res = "value"
                                  /\ ~toSDKMessages(session.sessionId, n.value).yielded]
  /\ UNCHANGED <<hvars, qvars, xvars, bvars, tvars, evars, session, store, handlers, arrived, routed, timers, used>>

\* finally block: finalizeMessage has text left and its thread.send throws, so
\* the rest of the block does not run and runAgent's promise rejects. Streamed
\* text is not a state variable: any initialised run may have some accumulated.
TeardownFail(r) ==
  /\ runs[r].pc = "teardown"
  /\ runs[r].inited
  /\ used < MaxRare
  /\ used' = used + 1
  /\ runs' = [runs EXCEPT ![r].pc = "failed"]
  /\ UNCHANGED <<hvars, qvars, xvars, bvars, tvars, evars, session, store, handlers, arrived, routed, timers>>

\* a variant of the queue assembly that puts the continuation behind the queue
TeardownQueueContinueLast(s, ch) ==
  LET drained == ChDrain(ChClose(ch).ch).items
      q1 == drained \o s.messageQueue
      q2 == IF s.clearContextOnComplete /\ s.planToImplement # "null"
            THEN <<PlanPrompt>> \o q1 ELSE q1
  IN IF ~s.clearContextOnComplete /\ s.autoResume THEN q2 \o <<ContinuePrompt>> ELSE q2

\* finally block: the queue as assembled before messageQueue.shift()
TeardownQueue(s, ch) ==
  LET drained == ChDrain(ChClose(ch).ch).items
      q1 == drained \o s.messageQueue
      q2 == IF s.clearContextOnComplete /\ s.planToImplement # "null"
            THEN <<PlanPrompt>> \o q1 ELSE q1
  IN IF ~s.clearContextOnComplete /\ s.autoResume THEN <<ContinuePrompt>> \o q2 ELSE q2

\* finally block: the Session fields as left before messageQueue.shift()
TeardownSession(s, ch) ==
  LET cc == s.clearContextOnComplete
  IN [s EXCEPT !.inputChannel = NoRun, !.query = NoRun,
               !.clearContextOnComplete = FALSE,
               !.sessionId = IF cc THEN NoSid ELSE @,
               !.abortSignaled = IF cc THEN FALSE ELSE @,
               !.planToImplement = IF cc THEN "null" ELSE @,
               !.autoResume = FALSE,
               !.messageQueue = TeardownQueue(s, ch)]

\* finally block: shift() and either the successor run or busy = false
Dispatch(s, rs, nr) ==
  IF s.messageQueue = <<>>
  THEN [s |-> [s EXCEPT !.busy = FALSE, !.chain = 0], rs |-> rs]
  ELSE LET p == Head(s.messageQueue)
           s1 == [s EXCEPT !.messageQueue = Tail(@)]
       IN IF p.empty
          THEN [s |-> [s1 EXCEPT !.busy = FALSE, !.chain = 0], rs |-> rs]
          ELSE StartRun(s1, rs, nr, p)

\* whether Dispatch starts a run
Dispatches(s) == s.messageQueue # <<>> /\ ~Head(s.messageQueue).empty

\* finally block from inputChannel.close() to its end, one synchronous stretch
Teardown(r) ==
  /\ runs[r].pc = "teardown"
  /\ LET s1 == TeardownSession(session, runs[r].chan)
         rs1 == IF session.clearContextOnComplete THEN FreshController(runs) ELSE runs
         rs2 == [rs1 EXCEPT ![r] = [DoneRun EXCEPT !.plan =
                   IF session.pendingPlanApproval = r THEN runs[r].plan ELSE "null"]]
         d == Dispatch(s1, rs2, NextRun)
     IN /\ Dispatches(s1) => NextRun # NoRun
        /\ session' = d.s
        /\ runs' = d.rs
  /\ UNCHANGED <<hvars, qvars, xvars, bvars, tvars, evars, store, handlers, arrived, routed, timers, used>>

\* ----------------------- the prompt protocol on its own (PromptSpec)
\* A text is the sequence of its words; "," is a word of its own written
\* without a space before it. Questions are numbered from 1 (the code's qi + 1)
\* and 0 stands for null in awaitingOtherForQuestion.
Headers == <<"H1", "H2">>

\* the option labels of the two questions
Options == << <<"A", "B">>, <<"C">> >>

\* the AskUserQuestion input, multi[qi] being question qi's multiSelect
Questions(multi) ==
  [qi \in 1..NQuestions |->
     [header |-> Headers[qi], options |-> Options[qi], multiSelect |-> multi[qi]]]

RECURSIVE FlatFrom(_, _, _)
FlatFrom(questions, qi, globalIndex) ==
  IF qi > Len(questions) THEN <<>>
  ELSE LET opts == questions[qi].options
           own == [k \in 1..Len(opts) |->
                     [globalIndex |-> globalIndex + k - 1, questionIndex |-> qi,
                      label |-> opts[k], isOther |-> FALSE]]
           other == [globalIndex |-> globalIndex + Len(opts), questionIndex |-> qi,
                     label |-> "Other", isOther |-> TRUE]
       IN own \o <<other>> \o FlatFrom(questions, qi + 1, globalIndex + Len(opts) + 1)

buildFlatOptions(questions) == FlatFrom(questions, 1, 1)

\* flatOptions.find((o) => o.globalIndex === num)
HasOption(flat, num) == \E i \in DOMAIN flat : flat[i].globalIndex = num
FindOption(flat, num) == flat[CHOOSE i \in DOMAIN flat : flat[i].globalIndex = num]

\* a Map: set and delete
MapSet(m, k, v) == [x \in DOMAIN m \cup {k} |-> IF x = k THEN v ELSE m[x]]
MapDelete(m, k) == [x \in DOMAIN m \ {k} |-> m[x]]

\* a Set, which iterates in insertion order: has, add and delete
SetHas(sq, x) == \E i \in DOMAIN sq : sq[i] = x
SetAdd(sq, x) == IF SetHas(sq, x) THEN sq ELSE Append(sq, x)
SetDelete(sq, x) == SelectSeq(sq, LAMBDA y : y # x)

\* session.pendingQuestion = null
NoPending ==
  [open |-> FALSE, questions |-> <<>>, flatOptions |-> <<>>, selections |-> <<>>,
   otherText |-> <<>>, awaitingOtherForQuestion |-> 0]

\* the PendingQuestion handleAskUserQuestion stores
NewPending(questions) ==
  [open |-> TRUE, questions |-> questions, flatOptions |-> buildFlatOptions(questions),
   selections |-> [qi \in 1..Len(questions) |-> <<>>],
   otherText |-> <<>>, awaitingOtherForQuestion |-> 0]

\* parseInt on the words that are numbers
NumVal == ("1" :> 1) @@ ("2" :> 2) @@ ("3" :> 3) @@ ("4" :> 4) @@ ("5" :> 5) @@ ("9" :> 9)
IsNum(w) == w \in DOMAIN NumVal

\* toLowerCase / the i flag, on the words used here
Lower(w) ==
  CASE w = "DONE" -> "done"
    [] w = "LGTM" -> "lgtm"
    [] w = "Clear" -> "clear"
    [] OTHER -> w

LowerText(text) == [i \in DOMAIN text |-> Lower(text[i])]

\* /^(submit|done|confirm)$/i
IsSubmit(text) == Len(text) = 1 /\ Lower(text[1]) \in {"submit", "done", "confirm"}

\* /^(\d+)\s+(.+)$/s
IsShorthand(text) == Len(text) >= 2 /\ IsNum(text[1]) /\ text[2] # ","

\* /^[\d,\s]+$/
IsNumeric(text) == text # <<>> /\ \A i \in DOMAIN text : IsNum(text[i]) \/ text[i] = ","

\* text.split(/[,\s]+/).map(parseInt).filter(not NaN)
RECURSIVE Nums(_)
Nums(text) ==
  IF text = <<>> THEN <<>>
  ELSE IF IsNum(Head(text)) THEN <<NumVal[Head(text)]>> \o Nums(Tail(text))
  ELSE Nums(Tail(text))

\* the "number + freeform text" branch for an Other option
OtherShorthand(p, num, freeform) ==
  LET opt == FindOption(p.flatOptions, num)
      qi == opt.questionIndex
      q == p.questions[qi]
      selected == IF q.multiSelect THEN p.selections[qi] ELSE <<>>
      other == IF q.multiSelect THEN p.otherText ELSE MapDelete(p.otherText, qi)
  IN [p EXCEPT !.selections[qi] = SetAdd(selected, num),
               !.otherText = MapSet(other, qi, freeform)]

\* one turn of the numeric branch's loop
Toggle(p, num) ==
  IF ~HasOption(p.flatOptions, num) THEN p
  ELSE LET opt == FindOption(p.flatOptions, num)
           qi == opt.questionIndex
           selected == p.selections[qi]
           q == p.questions[qi]
       IN IF opt.isOther
          THEN IF SetHas(selected, num)
               THEN [p EXCEPT !.selections[qi] = SetDelete(selected, num),
                              !.otherText = MapDelete(@, qi)]
               ELSE [p EXCEPT !.selections[qi] =
                                SetAdd(IF q.multiSelect THEN selected ELSE <<>>, num),
                              !.awaitingOtherForQuestion = qi]
          ELSE IF SetHas(selected, num)
               THEN [p EXCEPT !.selections[qi] = SetDelete(selected, num)]
               ELSE IF q.multiSelect
                    THEN [p EXCEPT !.selections[qi] = SetAdd(selected, num)]
                    ELSE [p EXCEPT !.selections[qi] = <<num>>,
                                   !.otherText = MapDelete(@, qi)]

RECURSIVE ToggleAll(_, _)
ToggleAll(p, nums) ==
  IF nums = <<>> THEN p ELSE ToggleAll(Toggle(p, Head(nums)), Tail(nums))

\* labels.join(", ")
RECURSIVE Join(_)
Join(labels) ==
  IF labels = <<>> THEN <<>>
  ELSE IF Len(labels) = 1 THEN labels[1]
  ELSE labels[1] \o <<",">> \o Join(Tail(labels))

\* the labels buildAnswersFromSelections collects for question qi, in the
\* Set's order: an Other option gives its text when the text is non-empty
RECURSIVE Labels(_, _, _)
Labels(p, qi, selected) ==
  IF selected = <<>> THEN <<>>
  ELSE LET globalIdx == Head(selected)
           rest == Labels(p, qi, Tail(selected))
       IN IF ~HasOption(p.flatOptions, globalIdx) THEN rest
          ELSE LET opt == FindOption(p.flatOptions, globalIdx)
               IN IF opt.isOther
                  THEN IF qi \in DOMAIN p.otherText /\ p.otherText[qi] # <<>>
                       THEN <<p.otherText[qi]>> \o rest
                       ELSE rest
                  ELSE << <<opt.label>> >> \o rest

\* q.options[0]?.label ?? ""
FirstLabel(q) == IF q.options = <<>> THEN <<>> ELSE <<q.options[1]>>

buildAnswersFromSelections(p) ==
  [h \in {p.questions[qi].header : qi \in DOMAIN p.questions} |->
     LET qi == CHOOSE i \in DOMAIN p.questions :
                 /\ p.questions[i].header = h
                 /\ \A j \in DOMAIN p.questions : p.questions[j].header = h => j <= i
         labels == Labels(p, qi, p.selections[qi])
     IN IF labels # <<>> THEN Join(labels) ELSE FirstLabel(p.questions[qi])]

\* handleInteractiveQuestion(pq, message): the PendingQuestion afterwards and
\* whether pq.resolve was called
handleInteractiveQuestion(p, text) ==
  IF p.awaitingOtherForQuestion # 0
  THEN [pq |-> [p EXCEPT !.otherText = MapSet(@, p.awaitingOtherForQuestion, text),
                         !.awaitingOtherForQuestion = 0],
        resolved |-> FALSE]
  ELSE IF IsSubmit(text)
  THEN [pq |-> p, resolved |-> TRUE]
  ELSE IF /\ IsShorthand(text)
          /\ HasOption(p.flatOptions, NumVal[text[1]])
          /\ FindOption(p.flatOptions, NumVal[text[1]]).isOther
  THEN [pq |-> OtherShorthand(p, NumVal[text[1]], Tail(text)), resolved |-> FALSE]
  ELSE IF IsNumeric(text)
  THEN [pq |-> ToggleAll(p, Nums(text)), resolved |-> FALSE]
  ELSE [pq |-> p, resolved |-> FALSE]

\* a variant of the parser that compares the reply without lower-casing it
parsePlanApprovalCaseSensitive(text) ==
  IF text \in {<<"1">>, <<"clear">>, <<"clear", "context">>}
  THEN [approved |-> TRUE, clearContext |-> TRUE]
  ELSE IF text \in {<<"2">>, <<"approve">>, <<"approved">>, <<"yes">>, <<"y">>,
                    <<"lgtm">>, <<"looks", "good">>, <<"ok">>, <<"go">>,
                    <<"go", "ahead">>, <<"proceed">>}
  THEN [approved |-> TRUE]
  ELSE IF text \in {<<"3">>, <<"reject">>, <<"rejected">>, <<"no">>, <<"n">>, <<"revise">>}
  THEN [approved |-> FALSE]
  ELSE [approved |-> FALSE, feedback |-> text]

\* parsePlanApproval(text)
parsePlanApproval(text) ==
  LET trimmed == LowerText(text)
  IN IF trimmed \in {<<"1">>, <<"clear">>, <<"clear", "context">>}
     THEN [approved |-> TRUE, clearContext |-> TRUE]
     ELSE IF trimmed \in {<<"2">>, <<"approve">>, <<"approved">>, <<"yes">>, <<"y">>,
                          <<"lgtm">>, <<"looks", "good">>, <<"ok">>, <<"go">>,
                          <<"go", "ahead">>, <<"proceed">>}
     THEN [approved |-> TRUE]
     ELSE IF trimmed \in {<<"3">>, <<"reject">>, <<"rejected">>, <<"no">>, <<"n">>,
                          <<"revise">>}
     THEN [approved |-> FALSE]
     ELSE [approved |-> FALSE, feedback |-> text]

\* the denial messages of handleExitPlanMode
RejectedWithFeedback(feedback) == <<"The user rejected the plan with feedback:">> \o feedback
RejectedRevise == <<"The user rejected the plan. Please revise.">>

\* a variant of the decision that clears the context on every approval
PlanDecisionAlwaysClear(result) ==
  IF result.approved
  THEN [behavior |-> "allow", updatedInput |-> "input",
        clearContextOnComplete |-> TRUE, abortScheduled |-> TRUE]
  ELSE [behavior |-> "deny",
        message |-> IF "feedback" \in DOMAIN result /\ result.feedback # <<>>
                    THEN RejectedWithFeedback(result.feedback)
                    ELSE RejectedRevise,
        clearContextOnComplete |-> FALSE, abortScheduled |-> FALSE]

\* handleExitPlanMode after the approval future resolved: the PermissionResult
\* returned for the tool call whose input is "input", whether
\* session.clearContextOnComplete was set and whether the deferred abort was
\* scheduled
PlanDecision(result) ==
  IF result.approved
  THEN IF "clearContext" \in DOMAIN result /\ result.clearContext
       THEN [behavior |-> "allow", updatedInput |-> "input",
             clearContextOnComplete |-> TRUE, abortScheduled |-> TRUE]
       ELSE [behavior |-> "allow", updatedInput |-> "input",
             clearContextOnComplete |-> FALSE, abortScheduled |-> FALSE]
  ELSE [behavior |-> "deny",
        message |-> IF "feedback" \in DOMAIN result /\ result.feedback # <<>>
                    THEN RejectedWithFeedback(result.feedback)
                    ELSE RejectedRevise,
        clearContextOnComplete |-> FALSE, abortScheduled |-> FALSE]

\* the replies a user sends to a question prompt
Replies ==
  {<<>>, <<"submit">>, <<"DONE">>, <<"x">>, <<"1">>, <<"2">>, <<"3">>, <<"4">>, <<"5">>,
   <<"9">>, <<"3", ",", "1">>, <<"3", ",", "5">>, <<"3", "x">>, <<"1", "x">>,
   <<"5", "x">>, <<"3", "1">>}

\* the replies a user sends to a plan approval prompt
PlanReplies ==
  {<<"1">>, <<"clear">>, <<"Clear", "context">>,
   <<"2">>, <<"approve">>, <<"approved">>, <<"yes">>, <<"y">>, <<"LGTM">>,
   <<"looks", "good">>, <<"ok">>, <<"go">>, <<"go", "ahead">>, <<"proceed">>,
   <<"3">>, <<"reject">>, <<"rejected">>, <<"no">>, <<"n">>, <<"revise">>,
   <<>>, <<"x">>, <<"4">>, <<"go", "on">>, <<"clear", "x">>, <<"no", "x">>,
   <<"looks">>, <<"submit">>}

NoApproval == [pending |-> FALSE]

QInit ==
  /\ pq = NoPending
  /\ answers = <<>>
  /\ approval = NoApproval

\* handleAskUserQuestion on a foreground Session stores the prompt
QAsk(multi) ==
  /\ ~pq.open
  /\ ~approval.pending
  /\ pq' = NewPending(Questions(multi))
  /\ answers' = <<>>
  /\ approval' = NoApproval
  /\ UNCHANGED <<hvars, svars, xvars, bvars, tvars, evars>>

\* handleThreadMessage, case A2, and the gate's continuation when it resolved
QReply(text) ==
  /\ pq.open
  /\ LET h == handleInteractiveQuestion(pq, text)
     IN IF h.resolved
        THEN pq' = NoPending /\ answers' = buildAnswersFromSelections(h.pq)
        ELSE pq' = h.pq /\ answers' = answers
  /\ UNCHANGED <<hvars, svars, xvars, bvars, tvars, evars, approval>>

\* handleExitPlanMode on a foreground Session stores the approval future
PlanAsk ==
  /\ ~pq.open
  /\ ~approval.pending
  /\ approval' = [pending |-> TRUE]
  /\ answers' = <<>>
  /\ UNCHANGED <<hvars, svars, xvars, bvars, tvars, evars, pq>>

\* handleThreadMessage, case A1, and the gate's continuation
PlanReply(text) ==
  /\ approval.pending
  /\ LET result == parsePlanApproval(text)
     IN approval' = [pending |-> FALSE, text |-> text, result |-> result,
                     decision |-> PlanDecision(result)]
  /\ UNCHANGED <<hvars, svars, xvars, bvars, tvars, evars, pq, answers>>

QNext ==
  \/ \E multi \in [1..NQuestions -> BOOLEAN] : QAsk(multi)
  \/ \E text \in Replies : QReply(text)
  \/ PlanAsk
  \/ \E text \in PlanReplies : PlanReply(text)

\* ----------------------- error handling on its own (ErrorSpec)
\* An error text is the set of the marker substrings it contains.
Markers == {"abort", "No conversation found", "Prompt is too long", "prompt_too_long"}

\* errors.toLowerCase().includes("prompt is too long") || ...includes("prompt_too_long")
TooLong(words) == "Prompt is too long" \in words \/ "prompt_too_long" \in words

\* handleMessage, result with an error subtype: the class of message.errors
ResultClass(words) ==
  IF "No conversation found" \in words THEN "noconv"
  ELSE IF TooLong(words) THEN "overflow"
  ELSE "other"

\* runAgent, catch: the class of the thrown error's message
CatchClass(words) ==
  IF "abort" \in words THEN "abort"
  ELSE IF TooLong(words) THEN "overflow"
  ELSE "other"

\* what is posted in the thread for an error of the class
ErrorNotice(cls) ==
  CASE cls = "abort" -> "none"
    [] cls = "noconv" -> "Session expired."
    [] cls = "overflow" -> "Context overflow"
    [] OTHER -> "error text"

\* removePersistedSession for the classes that call it
StoreAfter(st, cls) == IF cls \in {"noconv", "overflow"} THEN NoRecord ELSE st

NoErrCase == [path |-> "none"]

XInit == errCase = NoErrCase

\* an error reaches a Session with the given sessionId, turn count and durable
\* record: as a result message, or thrown by the query (signalled: the abort
\* controller was signalled from outside, which makes the query throw an error
\* whose message names the abort)
HandleError(path, words, signalled, sid, tc, st) ==
  /\ signalled => (path = "thrown" /\ "abort" \in words)
  /\ LET cls == IF path = "result" THEN ResultClass(words) ELSE CatchClass(words)
         s == [NewSession EXCEPT !.sessionId = sid, !.turnCount = tc]
         s1 == ErrorEffect(s, cls)
     IN errCase' = [path |-> path, words |-> words, signalled |-> signalled,
                    sessionId |-> sid, turnCount |-> tc, store |-> st,
                    sessionIdAfter |-> s1.sessionId, turnCountAfter |-> s1.turnCount,
                    storeAfter |-> StoreAfter(st, cls), notice |-> ErrorNotice(cls)]
  /\ UNCHANGED <<hvars, svars, qvars, bvars, tvars, evars>>

XNext ==
  \E path \in {"result", "thrown"}, words \in SUBSET Markers, signalled \in BOOLEAN,
     sid \in {NoSid, 1}, tc \in 0..MaxTotalTurns,
     st \in {NoRecord, [sid |-> 1, cost |-> 0], [sid |-> 1, cost |-> 1]} :
    HandleError(path, words, signalled, sid, tc, st)

\* ----------------------- background tasks on their own (BgSpec)
MaxObjs == 2        \* Session objects created for the thread
MaxCtl == 2         \* AbortControllers created for one Session object
MaxBuffered == 1    \* follow-ups buffered on one Handoff Channel
MaxGates == 1       \* canUseTool calls on a blocking tool

\* createSession: the fields the background operations and the gate use. An
\* AbortController is its number among the controllers of the object; aborted
\* holds the controllers that were signalled. inputChannel and query are
\* "null", "open" or "closed"; buffered and messageQueue are lengths.
NewBgSession ==
  [busy |-> FALSE, abortController |-> 1, aborted |-> {}, inputChannel |-> "null",
   buffered |-> 0, query |-> "null", messageQueue |-> 0,
   pendingQuestion |-> FALSE, pendingPlanApproval |-> FALSE,
   clearContextOnComplete |-> FALSE, isBackground |-> FALSE, bgTaskId |-> 0,
   sessionId |-> NoSid, totalCost |-> 0]

NoGate == [n |-> 0]

\* no call yet; assigned holds every task id backgroundSession has returned
NoBgResult == [op |-> "none", task |-> 0, inherit |-> 0, assigned |-> {}]

BInit ==
  /\ objs = <<>>
  /\ sessions = NoRun
  /\ bgTasks = <<>>
  /\ bgIdCounters = 0
  /\ gate = NoGate
  /\ bgResult = NoBgResult

\* x.close() where x is not null
CloseIfSet(x) == IF x = "null" THEN "null" ELSE "closed"

\* the steps the three abort sequences share: controller.abort(), the two
\* closes, messageQueue = [], pendingQuestion = null, pendingPlanApproval = null
AbortSteps(s) ==
  [s EXCEPT !.aborted = @ \cup {s.abortController},
            !.inputChannel = CloseIfSet(@), !.query = CloseIfSet(@),
            !.messageQueue = 0,
            !.pendingQuestion = FALSE, !.pendingPlanApproval = FALSE]

\* session.abortController = new AbortController()
NewController(s) == [s EXCEPT !.abortController = @ + 1]

\* handleCommand, case "abort", on a busy Session
ForegroundAbort(s) == NewController(AbortSteps(s))

\* abortBgTask: the Session of the task with the id, if there is one
abortBgTask(os, tasks, taskId) ==
  IF \E i \in DOMAIN tasks : tasks[i].id = taskId
  THEN LET o == tasks[CHOOSE i \in DOMAIN tasks : tasks[i].id = taskId].session
       IN [os EXCEPT ![o] = NewController(AbortSteps(os[o]))]
  ELSE os

\* abortAllBgTasks: the loop over the thread's tasks
abortAllBgTasks(os, tasks) ==
  [o \in DOMAIN os |->
     IF \E i \in DOMAIN tasks : tasks[i].session = o THEN AbortSteps(os[o]) ELSE os[o]]

\* answers[q.header] = q.options[0]?.label ?? "" for every q, in order
DefaultAnswers(questions) ==
  [h \in {questions[i].header : i \in DOMAIN questions} |->
     LET last == CHOOSE i \in DOMAIN questions :
                   /\ questions[i].header = h
                   /\ \A j \in DOMAIN questions : questions[j].header = h => j <= i
         opts == questions[last].options
     IN IF opts = <<>> THEN "" ELSE opts[1]]

\* handleAskUserQuestion up to its first wait for the user: the Session and
\* what the gate has returned (returned = FALSE while it awaits the reply)
handleAskUserQuestionInteractive(s, questions) ==
  IF questions = <<>>
  THEN [session |-> s, returned |-> TRUE, behavior |-> "allow",
        updatedInput |-> [input |-> "input"]]
  ELSE [session |-> [s EXCEPT !.pendingQuestion = TRUE], returned |-> FALSE,
        behavior |-> "none", updatedInput |-> [input |-> "input"]]

handleAskUserQuestion(s, questions) ==
  IF questions = <<>>
  THEN [session |-> s, returned |-> TRUE, behavior |-> "allow",
        updatedInput |-> [input |-> "input"]]
  ELSE IF s.isBackground
  THEN [session |-> s, returned |-> TRUE, behavior |-> "allow",
        updatedInput |-> [input |-> "input", answers |-> DefaultAnswers(questions)]]
  ELSE [session |-> [s EXCEPT !.pendingQuestion = TRUE], returned |-> FALSE,
        behavior |-> "none", updatedInput |-> [input |-> "input"]]

\* handleExitPlanMode up to its first wait for the user
handleExitPlanModeInteractive(s) ==
  [session |-> [s EXCEPT !.pendingPlanApproval = TRUE], returned |-> FALSE,
   behavior |-> "none", updatedInput |-> [input |-> "input"]]

handleExitPlanMode(s) ==
  IF s.isBackground
  THEN [session |-> s, returned |-> TRUE, behavior |-> "allow",
        updatedInput |-> [input |-> "input"]]
  ELSE [session |-> [s EXCEPT !.pendingPlanApproval = TRUE], returned |-> FALSE,
        behavior |-> "none", updatedInput |-> [input |-> "input"]]

\* the AskUserQuestion inputs of the gate
GateQuestions == {<<>>} \cup {Questions(multi) : multi \in [1..NQuestions -> {FALSE}]}

BgFrame == UNCHANGED <<hvars, svars, qvars, xvars, tvars, evars>>

\* createSession: a new object is registered for the thread
createSession(os) == [objs |-> Append(os, NewBgSession), session |-> Len(os) + 1]

\* createForegroundSession, which forgets what the detached Session knew
createForegroundSessionBlank(os, inheritFrom) == createSession(os)

\* createForegroundSession
createForegroundSession(os, inheritFrom) ==
  LET c == createSession(os)
  IN [c EXCEPT !.objs[c.session].sessionId = os[inheritFrom].sessionId,
               !.objs[c.session].totalCost = os[inheritFrom].totalCost]

\* handleThreadMessage: no Session is registered for the thread, one is created
BgCreate ==
  /\ sessions = NoRun
  /\ Len(objs) < MaxObjs
  /\ objs' = createSession(objs).objs
  /\ sessions' = createSession(objs).session
  /\ UNCHANGED <<bgTasks, bgIdCounters, gate, bgResult>>
  /\ BgFrame

\* createForegroundSession(threadId, thread, cwd, inheritFrom), for the Session
\* of a background task
BgCreateForeground(inheritFrom) ==
  /\ Len(objs) < MaxObjs
  /\ \E i \in DOMAIN bgTasks : bgTasks[i].session = inheritFrom
  /\ objs' = createForegroundSession(objs, inheritFrom).objs
  /\ sessions' = createForegroundSession(objs, inheritFrom).session
  /\ bgResult' = [bgResult EXCEPT !.op = "foreground", !.task = 0, !.inherit = inheritFrom]
  /\ UNCHANGED <<bgTasks, bgIdCounters, gate>>
  /\ BgFrame

\* handleMessage, system init: setSessionId, which acts on the registered Session
BgEvInit(o) ==
  /\ o \in DOMAIN objs
  /\ objs[o].busy /\ objs[o].query = "open"
  /\ sessions # NoRun
  /\ objs[sessions].sessionId = NoSid
  /\ objs' = [objs EXCEPT ![sessions].sessionId = 1]
  /\ UNCHANGED <<sessions, bgTasks, bgIdCounters, gate, bgResult>>
  /\ BgFrame

\* handleMessage, result: addCost, which acts on the registered Session
BgEvResult(o) ==
  /\ o \in DOMAIN objs
  /\ objs[o].busy /\ objs[o].query = "open"
  /\ sessions # NoRun
  /\ objs[sessions].sessionId # NoSid
  /\ objs[sessions].totalCost = 0
  /\ objs' = [objs EXCEPT ![sessions].totalCost = 1]
  /\ UNCHANGED <<sessions, bgTasks, bgIdCounters, gate, bgResult>>
  /\ BgFrame

\* runAgent up to its first await, called for a message on the idle registered Session
BgRunStart ==
  /\ sessions # NoRun
  /\ ~objs[sessions].busy
  /\ objs' = [objs EXCEPT ![sessions].busy = TRUE, ![sessions].inputChannel = "open",
                          ![sessions].buffered = 0]
  /\ UNCHANGED <<sessions, bgTasks, bgIdCounters, gate, bgResult>>
  /\ BgFrame

\* runAgent: session.query = q
BgCreateQuery(o) ==
  /\ o \in DOMAIN objs
  /\ objs[o].busy
  /\ objs[o].inputChannel # "null"
  /\ objs[o].query = "null"
  /\ objs' = [objs EXCEPT ![o].query = IF objs[o].abortController \in objs[o].aborted
                                         THEN "closed" ELSE "open"]
  /\ UNCHANGED <<sessions, bgTasks, bgIdCounters, gate, bgResult>>
  /\ BgFrame

\* handleThreadMessage on the busy registered Session: inputChannel.push
BgFollowUp ==
  /\ sessions # NoRun
  /\ objs[sessions].busy
  /\ objs[sessions].inputChannel = "open"
  /\ ~objs[sessions].pendingQuestion /\ ~objs[sessions].pendingPlanApproval
  /\ objs[sessions].buffered < MaxBuffered
  /\ objs' = [objs EXCEPT ![sessions].buffered = @ + 1]
  /\ UNCHANGED <<sessions, bgTasks, bgIdCounters, gate, bgResult>>
  /\ BgFrame

\* canUseTool for AskUserQuestion, called by the open query of a Session
BgGateQuestion(o, questions) ==
  /\ o \in DOMAIN objs
  /\ gate.n < MaxGates
  /\ objs[o].busy /\ objs[o].query = "open"
  /\ ~objs[o].pendingQuestion /\ ~objs[o].pendingPlanApproval
  /\ LET r == handleAskUserQuestion(objs[o], questions)
     IN /\ objs' = [objs EXCEPT ![o] = r.session]
        /\ gate' = [n |-> gate.n + 1, obj |-> o, tool |-> "AskUserQuestion",
                    questions |-> questions, returned |-> r.returned,
                    behavior |-> r.behavior, updatedInput |-> r.updatedInput]
  /\ UNCHANGED <<sessions, bgTasks, bgIdCounters, bgResult>>
  /\ BgFrame

\* canUseTool for ExitPlanMode, called by the open query of a Session
BgGatePlan(o) ==
  /\ o \in DOMAIN objs
  /\ gate.n < MaxGates
  /\ objs[o].busy /\ objs[o].query = "open"
  /\ ~objs[o].pendingQuestion /\ ~objs[o].pendingPlanApproval
  /\ LET r == handleExitPlanMode(objs[o])
     IN /\ objs' = [objs EXCEPT ![o] = r.session]
        /\ gate' = [n |-> gate.n + 1, obj |-> o, tool |-> "ExitPlanMode",
                    questions |-> <<>>, returned |-> r.returned,
                    behavior |-> r.behavior, updatedInput |-> r.updatedInput]
  /\ UNCHANGED <<sessions, bgTasks, bgIdCounters, bgResult>>
  /\ BgFrame

\* backgroundSession on B = [objs, sessions, bgTasks, bgIdCounters], without
\* the test of busy
backgroundSessionAnyRegistered(B) ==
  IF B.sessions = NoRun THEN [B |-> B, task |-> 0]
  ELSE LET counter == B.bgIdCounters + 1
       IN [B |-> [objs |-> [B.objs EXCEPT ![B.sessions].isBackground = TRUE,
                                          ![B.sessions].bgTaskId = counter],
                  sessions |-> NoRun,
                  bgTasks |-> Append(B.bgTasks, [id |-> counter, session |-> B.sessions]),
                  bgIdCounters |-> counter],
           task |-> counter]

\* backgroundSession: the state after the call and the id of the task
\* returned, 0 for null
backgroundSession(B) ==
  IF B.sessions = NoRun \/ ~B.objs[B.sessions].busy THEN [B |-> B, task |-> 0]
  ELSE LET counter == B.bgIdCounters + 1
       IN [B |-> [objs |-> [B.objs EXCEPT ![B.sessions].isBackground = TRUE,
                                          ![B.sessions].bgTaskId = counter],
                  sessions |-> NoRun,
                  bgTasks |-> Append(B.bgTasks, [id |-> counter, session |-> B.sessions]),
                  bgIdCounters |-> counter],
           task |-> counter]

\* backgroundSession(threadId, label), called in any state
BgBackground ==
  /\ LET r == backgroundSession([objs |-> objs, sessions |-> sessions,
                                 bgTasks |-> bgTasks, bgIdCounters |-> bgIdCounters])
     IN /\ objs' = r.B.objs
        /\ sessions' = r.B.sessions
        /\ bgTasks' = r.B.bgTasks
        /\ bgIdCounters' = r.B.bgIdCounters
        /\ bgResult' = [op |-> "background", task |-> r.task, inherit |-> 0,
                        assigned |-> IF r.task = 0 THEN bgResult.assigned
                                     ELSE bgResult.assigned \cup {r.task}]
  /\ UNCHANGED gate
  /\ BgFrame

\* removeBgTask
BgRemove(taskId) ==
  /\ \E i \in DOMAIN bgTasks : bgTasks[i].id = taskId
  /\ bgTasks' = SelectSeq(bgTasks, LAMBDA t : t.id # taskId)
  /\ UNCHANGED <<objs, sessions, bgIdCounters, gate, bgResult>>
  /\ BgFrame

\* handleCommand, case "abort"
BgAbortForeground ==
  /\ sessions # NoRun
  /\ objs[sessions].busy
  /\ objs[sessions].abortController < MaxCtl
  /\ objs' = [objs EXCEPT ![sessions] = ForegroundAbort(@)]
  /\ UNCHANGED <<sessions, bgTasks, bgIdCounters, gate, bgResult>>
  /\ BgFrame

\* abortBgTask for a task of the list
BgAbortTask(taskId) ==
  /\ \E i \in DOMAIN bgTasks :
       bgTasks[i].id = taskId /\ objs[bgTasks[i].session].abortController < MaxCtl
  /\ objs' = abortBgTask(objs, bgTasks, taskId)
  /\ UNCHANGED <<sessions, bgTasks, bgIdCounters, gate, bgResult>>
  /\ BgFrame

\* deleteSession: the registered Session, if any, is aborted and removed, then
\* abortAllBgTasks
BgDelete ==
  /\ sessions # NoRun \/ bgTasks # <<>>
  /\ LET os == IF sessions = NoRun THEN objs
               ELSE [objs EXCEPT ![sessions].aborted = @ \cup {objs[sessions].abortController},
                                 ![sessions].inputChannel = "null",
                                 ![sessions].query = "null"]
     IN objs' = abortAllBgTasks(os, bgTasks)
  /\ sessions' = NoRun
  /\ bgTasks' = <<>>
  /\ UNCHANGED <<bgIdCounters, gate, bgResult>>
  /\ BgFrame

\* runAgent, finally: the channel is drained into the queue; the next queued
\* instruction starts a run on the same object, otherwise the Session is idle
BgTeardown(o) ==
  /\ o \in DOMAIN objs
  /\ objs[o].busy
  /\ objs[o].query = "closed" \/ (objs[o].query = "open" /\ ~objs[o].pendingQuestion
                                  /\ ~objs[o].pendingPlanApproval)
  /\ LET queued == objs[o].messageQueue + objs[o].buffered
     IN objs' = [objs EXCEPT ![o].query = "null",
                             ![o].buffered = 0,
                             ![o].inputChannel = IF queued > 0 THEN "open" ELSE "null",
                             ![o].messageQueue = IF queued > 0 THEN queued - 1 ELSE 0,
                             ![o].busy = queued > 0]
  /\ UNCHANGED <<sessions, bgTasks, bgIdCounters, gate, bgResult>>
  /\ BgFrame

BNext ==
  \/ BgCreate
  \/ BgRunStart
  \/ BgFollowUp
  \/ BgBackground
  \/ \E inheritFrom \in 1..MaxObjs : BgCreateForeground(inheritFrom)
  \/ BgAbortForeground
  \/ BgDelete
  \/ \E o \in 1..MaxObjs :
       \/ BgCreateQuery(o)
       \/ BgEvInit(o)
       \/ BgEvResult(o)
       \/ \E questions \in GateQuestions : BgGateQuestion(o, questions)
       \/ BgGatePlan(o)
       \/ BgTeardown(o)
  \/ \E taskId \in 1..MaxObjs :
       \/ BgRemove(taskId)
       \/ BgAbortTask(taskId)

\* ----------------------- tool cards on their own (ToolSpec)
MaxObserved == 3    \* observations of tool-call-ids by the paths of a run

ToolIds == {"t1", "t2"}
\* the tool of a call; neither is Edit or Write, whose cards are diff cards
ToolName(id) == IF id = "t1" THEN "Bash" ELSE "Read"

\* new Map() / {}
EmptyMap == [x \in {} |-> 0]

TInit ==
  /\ toolCards = EmptyMap
  /\ toolCounts = EmptyMap
  /\ toolLog = <<>>
  /\ cardSends = {}
  /\ created = [id \in ToolIds |-> 0]
  /\ observed = [id \in ToolIds |-> 0]
  /\ lastPath = "none"

\* the observations made so far
TotalObserved == observed["t1"] + observed["t2"]

\* state.toolCounts[name] = (state.toolCounts[name] ?? 0) + 1
CountUp(counts, name) ==
  MapSet(counts, name, IF name \in DOMAIN counts THEN counts[name] + 1 ELSE 1)

TFrame == UNCHANGED <<hvars, svars, qvars, xvars, bvars, evars>>

\* the count, the log entry and createToolCard, which the three paths perform
\* when they find no card: the card is registered at once, its send is in flight
CountAndCreate(id, detail) ==
  /\ toolCounts' = CountUp(toolCounts, ToolName(id))
  /\ toolLog' = Append(toolLog, [name |-> ToolName(id), detail |-> detail])
  /\ toolCards' = MapSet(toolCards, id, [card |-> created[id] + 1, detail |-> detail])
  /\ cardSends' = cardSends \cup {<<id, created[id] + 1>>}
  /\ created' = [created EXCEPT ![id] = @ + 1]

\* one of the paths observes the id: state.toolCards.has(id) decides; the
\* gate's path has the tool's input and writes its detail on a card it finds
Upsert(id, detail) ==
  IF id \in DOMAIN toolCards
  THEN /\ toolCards' = IF detail = "" THEN toolCards
                       ELSE [toolCards EXCEPT ![id].detail = detail]
       /\ UNCHANGED <<toolCounts, toolLog, cardSends, created>>
  ELSE CountAndCreate(id, detail)

\* handleMessage, stream_event content_block_start of a tool_use block
BlockStart(id) ==
  /\ TotalObserved < MaxObserved
  /\ observed' = [observed EXCEPT ![id] = @ + 1]
  /\ lastPath' = "start"
  /\ Upsert(id, "")
  /\ TFrame

\* onToolUse, called by the permission gate
OnToolUse(id) ==
  /\ TotalObserved < MaxObserved
  /\ observed' = [observed EXCEPT ![id] = @ + 1]
  /\ lastPath' = "gate"
  /\ Upsert(id, "detail")
  /\ TFrame

\* handleMessage, tool_progress
ToolProgress(id) ==
  /\ TotalObserved < MaxObserved
  /\ observed' = [observed EXCEPT ![id] = @ + 1]
  /\ lastPath' = "progress"
  /\ Upsert(id, "")
  /\ TFrame

\* createToolCard: thread.send resolves
CardSent(id, n) ==
  /\ <<id, n>> \in cardSends
  /\ cardSends' = cardSends \ {<<id, n>>}
  /\ UNCHANGED <<toolCards, toolCounts, toolLog, created, observed, lastPath>>
  /\ TFrame

\* createToolCard: thread.send rejects, card.ready.catch deletes the id's entry
CardSendFailed(id, n) ==
  /\ <<id, n>> \in cardSends
  /\ cardSends' = cardSends \ {<<id, n>>}
  /\ toolCards' = MapDelete(toolCards, id)
  /\ UNCHANGED <<toolCounts, toolLog, created, observed, lastPath>>
  /\ TFrame

\* clearStatus, called by doEdit before the first send of a message:
\* deleteAllToolCards empties the map
ClearStatus ==
  /\ DOMAIN toolCards # {}
  /\ toolCards' = EmptyMap
  /\ UNCHANGED <<toolCounts, toolLog, cardSends, created, observed, lastPath>>
  /\ TFrame

\* finalizeMessage: clearStatus, then toolCounts = {} and toolLog = []
FinalizeTools ==
  /\ toolLog # <<>>
  /\ toolCards' = EmptyMap
  /\ toolCounts' = EmptyMap
  /\ toolLog' = <<>>
  /\ UNCHANGED <<cardSends, created, observed, lastPath>>
  /\ TFrame

TNext ==
  \/ ClearStatus
  \/ FinalizeTools
  \/ \E id \in ToolIds :
       \/ BlockStart(id)
       \/ OnToolUse(id)
       \/ ToolProgress(id)
       \/ \E n \in 1..MaxObserved :
            \/ CardSent(id, n)
            \/ CardSendFailed(id, n)

\* ----------------------- the flush of streamed text on its own (EditSpec)
Interval == 2       \* config.editRateMs, in ticks of the clock
MaxTime == 6        \* the clock stops here
MaxText == 3        \* length of the text of one turn, in deltas
MaxFinalized == 2   \* assistant messages of the run

\* A text is its length: every text of a turn is a prefix of the turn's text.
\* Handles (editTimer, pendingEdit) are numbers, 0 being null.
NewStreamState ==
  [currentMessage |-> FALSE, accumulatedText |-> 0, lastEditTime |-> 0,
   editTimer |-> 0, pendingEdit |-> 0]

NoFlush == [len |-> 0, text |-> 0, followUps |-> 0]
NoTurn == [text |-> 0, delivered |-> 0, transient |-> FALSE]

NewFlushLog ==
  [nextId |-> 1,            \* the next handle
   scheduled |-> 0,         \* setTimeout calls of scheduleEdit
   flushes |-> 0,           \* doEdit calls of the turn that flushed text
   editCalls |-> 0,         \* message.edit calls of the turn
   firstDelta |-> -1,       \* when the turn's first delta arrived
   turns |-> 0,             \* turns finalized with text
   lastFlush |-> NoFlush,   \* the last doEdit that completed
   lastTurn |-> NoTurn]     \* the last turn finalized with text

EInit ==
  /\ state = NewStreamState
  /\ now = Interval
  /\ editTimers = {}
  /\ edits = <<>>
  /\ mainPc = [pc |-> "loop", from |-> "none", awaited |-> 0]
  /\ shown = 0
  /\ flushLog = NewFlushLog

EFrame == UNCHANGED <<hvars, svars, qvars, xvars, bvars, tvars>>

\* Math.max(0, config.editRateMs - (Date.now() - state.lastEditTime))
EditDelayNone(s) == 0

EditDelay(s) ==
  IF Interval - (now - s.lastEditTime) > 0 THEN Interval - (now - s.lastEditTime) ELSE 0

\* clearTimeout(handle)
clearTimeout(armed, handle) == {tm \in armed : tm.id # handle}

\* scheduleEdit, on M = [state, editTimers, log]
scheduleEditUnlessTimer(M) ==
  IF M.state.editTimer # 0 THEN M
  ELSE [state |-> [M.state EXCEPT !.editTimer = M.log.nextId],
        editTimers |-> M.editTimers \cup
                         {[id |-> M.log.nextId, due |-> now + EditDelay(M.state)]},
        log |-> [M.log EXCEPT !.nextId = @ + 1, !.scheduled = @ + 1]]

scheduleEdit(M) ==
  IF M.state.editTimer # 0 \/ M.state.pendingEdit # 0 THEN M
  ELSE [state |-> [M.state EXCEPT !.editTimer = M.log.nextId],
        editTimers |-> M.editTimers \cup
                         {[id |-> M.log.nextId, due |-> now + EditDelay(M.state)]},
        log |-> [M.log EXCEPT !.nextId = @ + 1, !.scheduled = @ + 1]]

\* where the event loop stands after finalizeMessage has returned
Resume(from) ==
  [pc |-> IF from = "assistant" THEN "loop" ELSE "done", from |-> "none", awaited |-> 0]

\* finalizeMessage up to its first await: M, what the thread shows and where
\* the event loop stands
finalizeMessage(M, sh, from) ==
  LET M1 == IF M.state.editTimer # 0
            THEN [M EXCEPT !.editTimers = clearTimeout(@, M.state.editTimer),
                           !.state.editTimer = 0]
            ELSE M
  IN IF M1.state.accumulatedText = 0
     THEN [M |-> [M1 EXCEPT !.state.currentMessage = FALSE], shown |-> 0,
           pc |-> Resume(from)]
     ELSE IF M1.state.currentMessage
     THEN [M |-> [M1 EXCEPT !.log.editCalls = @ + 1], shown |-> sh,
           pc |-> [pc |-> "finalEdit", from |-> from, awaited |-> 0]]
     ELSE [M |-> M1, shown |-> sh,
           pc |-> [pc |-> "finalSend", from |-> from, awaited |-> 0]]

\* finalizeMessage, after its sends: the state is reset for the next message
FinalizeReset(delivered, transient) ==
  /\ state' = [state EXCEPT !.currentMessage = FALSE, !.accumulatedText = 0,
                            !.lastEditTime = 0]
  /\ flushLog' = [flushLog EXCEPT !.flushes = 0, !.editCalls = 0, !.firstDelta = -1,
                                  !.turns = @ + 1,
                                  !.lastTurn = [text |-> state.accumulatedText,
                                                delivered |-> delivered,
                                                transient |-> transient]]
  /\ shown' = 0
  /\ mainPc' = Resume(mainPc.from)

Tick ==
  /\ now < MaxTime
  /\ now' = now + 1
  /\ UNCHANGED <<state, editTimers, edits, mainPc, shown, flushLog>>
  /\ EFrame

\* handleMessage, content_block_delta with text
Delta ==
  /\ mainPc.pc = "loop"
  /\ state.accumulatedText < MaxText
  /\ LET M == scheduleEdit([state |-> [state EXCEPT !.accumulatedText = @ + 1],
                            editTimers |-> editTimers,
                            log |-> [flushLog EXCEPT
                                       !.firstDelta = IF @ = -1 THEN now ELSE @]])
     IN /\ state' = M.state
        /\ editTimers' = M.editTimers
        /\ flushLog' = M.log
  /\ UNCHANGED <<now, edits, mainPc, shown>>
  /\ EFrame

\* the timer callback of scheduleEdit, with doEdit up to its first await
TimerFire(tm) ==
  /\ tm \in editTimers
  /\ tm.due <= now
  /\ editTimers' = editTimers \ {tm}
  /\ IF state.accumulatedText = 0
     THEN /\ state' = [state EXCEPT !.editTimer = 0, !.pendingEdit = 0]
          /\ UNCHANGED <<edits, flushLog>>
     ELSE /\ state' = [state EXCEPT !.editTimer = 0, !.pendingEdit = flushLog.nextId,
                                    !.lastEditTime = now]
          /\ edits' = Append(edits, [id |-> flushLog.nextId,
                                     kind |-> IF state.currentMessage THEN "edit" ELSE "send",
                                     len |-> state.accumulatedText])
          /\ flushLog' = [flushLog EXCEPT
                            !.nextId = @ + 1, !.flushes = @ + 1,
                            !.editCalls = IF state.currentMessage THEN @ + 1 ELSE @]
  /\ UNCHANGED <<now, mainPc, shown>>
  /\ EFrame

\* a doEdit in flight completes, then the finally callback of its promise runs,
\* then the event loop if it was awaiting this promise
EditDone(i, outcome) ==
  /\ i \in DOMAIN edits
  /\ outcome \in (IF edits[i].kind = "send" THEN {"ok", "failed"}
                  ELSE {"ok", "deleted", "transient"})
  /\ LET op == edits[i]
         s1 == [state EXCEPT !.currentMessage =
                  IF op.kind = "send" /\ outcome = "ok" THEN TRUE
                  ELSE IF outcome = "deleted" THEN FALSE ELSE @]
         sh1 == IF outcome = "ok" THEN op.len
                ELSE IF outcome = "deleted" THEN 0 ELSE shown
         M1 == [state |-> s1, editTimers |-> editTimers, log |-> flushLog]
         M2 == IF s1.pendingEdit # op.id THEN M1
               ELSE LET M0 == [M1 EXCEPT !.state.pendingEdit = 0]
                    IN IF s1.accumulatedText # 0 THEN scheduleEdit(M0) ELSE M0
         M3 == [M2 EXCEPT !.log.lastFlush =
                  [len |-> op.len, text |-> state.accumulatedText,
                   followUps |-> M2.log.scheduled - flushLog.scheduled]]
         F == finalizeMessage(M3, sh1, mainPc.from)
         go == mainPc.pc = "await" /\ mainPc.awaited = op.id
     IN /\ edits' = SelectSeq(edits, LAMBDA e : e.id # op.id)
        /\ state' = IF go THEN F.M.state ELSE M3.state
        /\ editTimers' = IF go THEN F.M.editTimers ELSE M3.editTimers
        /\ flushLog' = IF go THEN F.M.log ELSE M3.log
        /\ shown' = IF go THEN F.shown ELSE sh1
        /\ mainPc' = IF go THEN F.pc ELSE mainPc
  /\ UNCHANGED now
  /\ EFrame

\* handleMessage, assistant: the full text of the message, which is the
\* accumulated text or one delta more, then the wait for pendingEdit, then
\* finalizeMessage
Assistant(extra) ==
  /\ mainPc.pc = "loop"
  /\ flushLog.turns < MaxFinalized
  /\ state.accumulatedText + extra <= MaxText
  /\ LET text == state.accumulatedText + extra
         s1 == IF text # 0 /\ text # state.accumulatedText
               THEN [state EXCEPT !.accumulatedText = text] ELSE state
         F == finalizeMessage([state |-> s1, editTimers |-> editTimers, log |-> flushLog],
                              shown, "assistant")
     IN IF s1.pendingEdit # 0
        THEN /\ state' = s1
             /\ mainPc' = [pc |-> "await", from |-> "assistant", awaited |-> s1.pendingEdit]
             /\ UNCHANGED <<editTimers, shown, flushLog>>
        ELSE /\ state' = F.M.state
             /\ editTimers' = F.M.editTimers
             /\ flushLog' = F.M.log
             /\ shown' = F.shown
             /\ mainPc' = F.pc
  /\ UNCHANGED <<now, edits>>
  /\ EFrame

\* runAgent, finally: clearTimeout (the handle is kept), the wait for
\* pendingEdit, then finalizeMessage
StreamEnds ==
  /\ mainPc.pc = "loop"
  /\ LET M1 == [state |-> state, editTimers |-> clearTimeout(editTimers, state.editTimer),
                log |-> flushLog]
         F == finalizeMessage(M1, shown, "finally")
     IN IF state.pendingEdit # 0
        THEN /\ editTimers' = M1.editTimers
             /\ mainPc' = [pc |-> "await", from |-> "finally", awaited |-> state.pendingEdit]
             /\ UNCHANGED <<state, shown, flushLog>>
        ELSE /\ state' = F.M.state
             /\ editTimers' = F.M.editTimers
             /\ flushLog' = F.M.log
             /\ shown' = F.shown
             /\ mainPc' = F.pc
  /\ UNCHANGED <<now, edits>>
  /\ EFrame

\* finalizeMessage: currentMessage.edit(chunks[0]) settles
FinalEditDone(outcome) ==
  /\ mainPc.pc = "finalEdit"
  /\ CASE outcome = "ok" -> FinalizeReset(state.accumulatedText, FALSE)
       [] outcome = "transient" -> FinalizeReset(shown, TRUE)
       [] OTHER -> /\ shown' = 0
                   /\ mainPc' = [mainPc EXCEPT !.pc = "finalSend"]
                   /\ UNCHANGED <<state, flushLog>>
  /\ UNCHANGED <<now, editTimers, edits>>
  /\ EFrame

\* finalizeMessage: thread.send(chunks[0]) resolves
FinalSendDone ==
  /\ mainPc.pc = "finalSend"
  /\ FinalizeReset(state.accumulatedText, FALSE)
  /\ UNCHANGED <<now, editTimers, edits>>
  /\ EFrame

ENext ==
  \/ Tick
  \/ Delta
  \/ \E id \in 1..(2 * MaxText * MaxFinalized + 2), due \in 0..(MaxTime + Interval) :
       TimerFire([id |-> id, due |-> due])
  \/ \E i \in 1..2, outcome \in {"ok", "failed", "deleted", "transient"} : EditDone(i, outcome)
  \/ \E extra \in {0, 1} : Assistant(extra)
  \/ StreamEnds
  \/ \E outcome \in {"ok", "deleted", "transient"} : FinalEditDone(outcome)
  \/ FinalSendDone

\* ------------------------------------------------------ the specification
Next ==
  \/ HandlerNewDone
  \/ Evict
  \/ EvictBusy
  \/ FollowUpNotFound
  \/ FollowUpBusy
  \/ FollowUpExpired
  \/ FollowUpIdle
  \/ HandlerBusyDone
  \/ HandlerIdleDone
  \/ CmdAbort
  \/ CmdClear
  \/ ReplyQuestion
  \/ \E res \in {"clear", "approve", "reject"} : ReplyPlan(res)
  \/ TimerAbort
  \/ \E r \in Runs :
       \/ CreateQuery(r)
       \/ EvInit(r)
       \/ EvAskQuestion(r)
       \/ EvAskNoQuestions(r)
       \/ \E plan \in {"null", "plan"} : EvExitPlanMode(r, plan)
       \/ EvResultSuccess(r)
       \/ \E n \in 1..MaxNumTurns, ok \in BOOLEAN : EvResultMaxTurns(r, n, ok)
       \/ \E cls \in {"noconv", "overflow", "other"}, ok \in BOOLEAN : EvResultError(r, cls, ok)
       \/ StreamEnd(r)
       \/ ExitAbort(r)
       \/ \E cls \in {"overflow", "other"} : ThrowError(r, cls)
       \/ ConsumerNext(r)
       \/ TeardownFail(r)
       \/ Teardown(r)

Init == HInit /\ SInit /\ QInit /\ XInit /\ BInit /\ TInit /\ EInit

Spec == Init /\ [][Next]_vars

HNextStep == HPush \/ HClose \/ HDrain \/ \E c \in Consumers : HNext(c)

ChanSpec == Init /\ [][HNextStep]_vars

PromptSpec == Init /\ [][QNext]_vars

BgSpec == Init /\ [][BNext]_vars

ToolSpec == Init /\ [][TNext]_vars

EditSpec == Init /\ [][ENext]_vars

ErrorSpec == Init /\ [][XNext]_vars

\* the auto-resume chain on its own: one user request, follow-ups sent while it
\* runs, and up to ChainBudget non-routine events, so that a run, its
\* continuation and the continuation's own turn-limit result all occur
ChainInit ==
  /\ HInit /\ QInit /\ XInit /\ BInit /\ TInit /\ EInit
  /\ session = NewSession
  /\ store = NoRecord
  /\ runs = [r \in Runs |-> IdleRun]
  /\ handlers = [new |-> 1, busy |-> 0, idle |-> 0]
  /\ arrived = 1
  /\ routed = 0
  /\ timers = 0
  /\ used = MaxRare - ChainBudget

ChainNext ==
  \/ HandlerNewDone
  \/ FollowUpBusy
  \/ HandlerBusyDone
  \/ CmdAbort
  \/ \E r \in Runs :
       \/ CreateQuery(r)
       \/ EvInit(r)
       \/ EvResultSuccess(r)
       \/ \E n \in 1..MaxNumTurns, ok \in BOOLEAN : EvResultMaxTurns(r, n, ok)
       \/ StreamEnd(r)
       \/ ExitAbort(r)
       \/ ConsumerNext(r)
       \/ Teardown(r)

ChainSpec == ChainInit /\ [][ChainNext]_vars

\* ------------------------------------------------------------- properties
\* the values a log of next() resolutions delivered, in order
RECURSIVE Values(_)
Values(log) ==
  IF log = <<>> THEN <<>>
  ELSE IF Head(log)[2] = EOS THEN Values(Tail(log))
  ELSE <<Head(log)[2]>> \o Values(Tail(log))

\* C1: at most one agent run is active (started and not yet through its
\* teardown) for the Session at any time.
C1_AtMostOneActiveRun == Cardinality(ActiveRuns) <= 1

\* C2: session.busy is true in every state in which a run of the Session has
\* started and its teardown (or that of a successor) has not yet found the
\* queue empty.
C2_BusyWhileRunActive == ActiveRuns # {} => session.busy

\* C3: the values delivered to consumers, followed by what drain() returned,
\* followed by what is still buffered, are exactly the accepted pushes in push
\* order (each value once, none both delivered and drained), and no value is
\* delivered after an end-of-stream signal.
C3_ExactlyOnceInOrder ==
  /\ Values(hLog) \o hDrained \o hc.buffer = hPushed
  /\ \A i, j \in DOMAIN hLog : (i < j /\ hLog[i][2] = EOS) => hLog[j][2] = EOS

\* C3 witness: a closed channel of which some values were delivered, some were
\* returned by drain(), and a consumer has seen the end of the stream.
C3_Witness ==
  /\ hc.closed
  /\ Values(hLog) # <<>>
  /\ hDrained # <<>>
  /\ \E i \in DOMAIN hLog : hLog[i][2] = EOS

\* C4: close() on an open channel resolves every awaiting consumer with
\* end-of-stream at once and leaves none waiting; close() on a closed channel
\* changes nothing; a next() called after close() resolves in the same step; a
\* closed channel never has a waiter.
C4_CloseWakesAll ==
  /\ [](hc.closed => hc.waiters = <<>>)
  /\ [][/\ (hCloses' = hCloses + 1 /\ ~hc.closed) =>
             /\ hc'.closed
             /\ hc'.waiters = <<>>
             /\ hc'.buffer = hc.buffer
             /\ hLog' = hLog \o LogAll(hc.waiters, EOS)
        /\ (hCloses' = hCloses + 1 /\ hc.closed) => (hc' = hc /\ hLog' = hLog)
        /\ (hReads' = hReads + 1 /\ hc.closed) => Len(hLog') = Len(hLog) + 1]_vars

\* C4 witness: close() was called twice and the first call woke two consumers.
C4_Witness == hc.closed /\ hCloses = 2 /\ hWoken = 2

\* C5: no exit path of a run leaves the Session busy with no run that will
\* ever clear it.
C5_NoStuckBusy == session.busy => ActiveRuns # {}

\* the outcome C6 prescribes for instruction p in the current Session state
RoutedByState(p) ==
  LET c == session.inputChannel
      started == {r \in Runs : runs[r].pc = "none" /\ runs'[r].pc = "starting"}
  IN IF session.busy
     THEN /\ started = {}
          /\ IF c # NoRun /\ ~runs[c].chan.closed
             THEN /\ runs'[c].chan = ChPush(runs[c].chan, p).ch
                  /\ session'.messageQueue = session.messageQueue
             ELSE session'.messageQueue = Append(session.messageQueue, p)
     ELSE IF session.sessionId # NoSid
          THEN \E r \in started : runs'[r].prompt = p
          ELSE session' = session /\ runs' = runs

\* C6: when a follow-up's handler routes its instruction, the outcome is the one
\* prescribed for the Session's state at that moment: pushed (busy, open
\* channel), queued at the tail (busy, channel absent or closed), a new run
\* (idle with a session id), nothing (idle without one).
C6_RoutedByState ==
  [][(handlers'.busy < handlers.busy \/ handlers'.idle < handlers.idle) =>
       \E e \in BOOLEAN : RoutedByState(UserPrompt(routed + 1, e))]_vars

\* C7: a teardown that finds the pending queue non-empty starts exactly one
\* successor run, with the head entry, leaves the rest queued and keeps busy.
C7_TeardownDispatchesHead ==
  [][\A r \in Runs : (runs[r].pc = "teardown" /\ runs'[r].pc = "done") =>
       LET q == TeardownQueue(session, runs[r].chan)
           started == {n \in Runs : runs[n].pc = "none" /\ runs'[n].pc = "starting"}
       IN q # <<>> =>
            /\ session'.busy
            /\ session'.messageQueue = Tail(q)
            /\ Cardinality(started) = 1
            /\ \A n \in started : runs'[n].prompt = Head(q)]_vars

\* C8: the user instruction a teardown dispatches as the successor run was
\* sent before every user instruction the teardown leaves in the pending queue.
C8_DispatchedInSendOrder ==
  [][\A n \in Runs :
       (/\ \E r \in Runs : runs[r].pc = "teardown" /\ runs'[r].pc = "done"
        /\ runs[n].pc = "none" /\ runs'[n].pc = "starting"
        /\ runs'[n].prompt.kind = "user") =>
         \A i \in DOMAIN session'.messageQueue :
           session'.messageQueue[i].kind = "user" =>
             runs'[n].prompt.id < session'.messageQueue[i].id]_vars

C10_ResetStopsRuns ==
  \A r \in Runs : runs[r].wasReset => ~(runs[r].pc \in StreamPcs /\ ~Cancelled(r))

\* C11: a follow-up arriving on an idle Session whose sessionId was cleared (by
\* a reset or by an unrecognized-session / overflow error) is taken up to
\* start a run: its handler goes on to build the prompt and call runAgent.
C11_NextMessageStartsRun ==
  [][(/\ arrived' = arrived + 1
      /\ session.cleared /\ session.sessionId = NoSid
      /\ ~session.busy /\ NoPromptPending) => handlers' # handlers]_vars

\* C12: a follow-up that rebuilds an evicted Session gives it the sessionId and
\* the accumulated cost the Session had when it was evicted, and eviction
\* leaves the durable record as it was.
C12_EvictionRoundTrip ==
  [][/\ (arrived' = arrived + 1 /\ ~session.resident /\ session'.resident) =>
          /\ session'.sessionId = session.sessionId
          /\ session'.totalCost = session.totalCost
     /\ (session.resident /\ ~session'.resident) => store' = store]_vars

\* the runs a step starts
Started == {n \in Runs : runs[n].pc = "none" /\ runs'[n].pc = "starting"}

\* the step is the synchronous end of run r's finally block
TeardownStep(r) == runs[r].pc = "teardown" /\ runs'[r].pc = "done"

\* C13 as stated: the teardown of a run whose result was the turn limit below
\* the ceiling starts one run, with the synthetic continuation.
C13_LimitRunContinues ==
  [][\A r \in Runs : (TeardownStep(r) /\ runs[r].limit) =>
       \E n \in Started : runs'[n].prompt = ContinuePrompt]_vars

\* C13 amended: a turn-limit result below the ceiling raises the tally by the
\* reported turns and requests auto-resume; a teardown that finds auto-resume
\* still requested, and no clear-context approval, starts exactly one run, with
\* the synthetic continuation, ahead of everything drained and queued, and
\* leaves the tally as it is.
C13_AutoResumeAtTeardown ==
  [][\A r \in Runs :
       /\ (runs'[r].limit /\ ~runs[r].limit) =>
            /\ session'.autoResume
            /\ session'.turnCount > session.turnCount
            /\ session'.turnCount < MaxTotalTurns
       /\ (TeardownStep(r) /\ session.autoResume /\ ~session.clearContextOnComplete) =>
            /\ Cardinality(Started) = 1
            /\ \A n \in Started : runs'[n].prompt = ContinuePrompt
            /\ session'.messageQueue =
                 ChDrain(ChClose(runs[r].chan).ch).items \o session.messageQueue
            /\ session'.busy
            /\ ~session'.autoResume
            /\ session'.turnCount = session.turnCount]_vars

\* C13 witness: the continuation run has been started while a user instruction
\* waits in the queue, and the tally holds the turns counted so far.
C13_Witness ==
  /\ \E n \in Runs : runs[n].pc = "starting" /\ runs[n].prompt = ContinuePrompt
  /\ \E i \in DOMAIN session.messageQueue : session.messageQueue[i].kind = "user"
  /\ session.turnCount > 0
  /\ session.busy

\* the step is a turn-limit result that brings the tally to the ceiling or above
CeilingStep ==
  \E r \in Runs, n \in 1..MaxNumTurns, ok \in BOOLEAN :
    EvResultMaxTurns(r, n, ok) /\ session.turnCount + n >= MaxTotalTurns

GateCall(r) ==
  EvAskQuestion(r) \/ EvAskNoQuestions(r) \/ \E plan \in {"null", "plan"} : EvExitPlanMode(r, plan)

\* the step handles a user reply to the pending prompt
ReplyStep == ReplyQuestion \/ \E res \in {"clear", "approve", "reject"} : ReplyPlan(res)

\* the step is the arrival of a non-command message in the thread
ThreadMessage ==
  FollowUpNotFound \/ FollowUpBusy \/ FollowUpExpired \/ FollowUpIdle \/ ReplyStep

\* a gate that has stored its prompt returns only in a reply step, and a thread
\* message arriving while a prompt is pending on the Session the registry holds
\* for the thread suspends no handler that would
\* push or queue it, routes nothing, queues nothing and starts no run
PromptProtocol ==
  /\ \A r \in Runs : (runs[r].pc \in {"question", "plan"} /\ runs'[r].pc = "streaming")
                        => ReplyStep
  /\ (session.resident /\ ~NoPromptPending /\ ThreadMessage) =>
        /\ handlers' = handlers
        /\ routed' = routed
        /\ session'.messageQueue = session.messageQueue
        /\ Started = {}
        /\ \A r \in Runs : runs'[r].chan = runs[r].chan

\* C15 as stated: every call of the gate for a question or a plan exit leaves the
\* run blocked on a pending prompt until a user reply resolves it, and every
\* non-command message arriving while a prompt is pending is consumed by the
\* prompt protocol.
C15_GateBlocksUntilReply ==
  [][/\ \A r \in Runs : GateCall(r) => runs'[r].pc \in {"question", "plan"}
     /\ PromptProtocol]_vars

\* C15, amended: the gate blocks until a reply when it is called for a plan exit
\* or for a question tool call that carries at least one question; messages
\* arriving while a prompt is pending are consumed by the prompt protocol.
C15_GateWithPromptBlocks ==
  [][/\ \A r \in Runs : (GateCall(r) /\ ~EvAskNoQuestions(r))
                           => runs'[r].pc \in {"question", "plan"}
     /\ PromptProtocol]_vars

\* a plan reply has released the gate of a run that goes on streaming
C15_Witness ==
  /\ NoPromptPending
  /\ session.clearContextOnComplete
  /\ timers = 1
  /\ \E r \in Runs : runs[r].pc = "streaming" /\ runs[r].inited

\* the single-select questions of the stored prompt
SingleSelect == {qi \in DOMAIN pq.questions : ~pq.questions[qi].multiSelect}

\* every single-select question of the stored prompt has at most one toggled option
SingleSelectAtMostOne == \A qi \in SingleSelect : Len(pq.selections[qi]) <= 1

\* the options of question qi that the step toggles on
Selected(qi) ==
  {num \in 1..Len(pq.flatOptions) :
     SetHas(pq'.selections[qi], num) /\ ~SetHas(pq.selections[qi], num)}

\* a reply that selects an option of a single-select question leaves that option
\* as the question's only toggled one and leaves no Other text stored for the
\* question, except the text the same reply gave in the shorthand form
SelectingClears ==
  \A text \in Replies : (QReply(text) /\ pq'.open) =>
    \A qi \in SingleSelect : \A num \in Selected(qi) :
      /\ pq'.selections[qi] = <<num>>
      /\ qi \in DOMAIN pq'.otherText =>
           /\ pq.awaitingOtherForQuestion = 0
           /\ IsShorthand(text)
           /\ pq'.otherText[qi] = Tail(text)

\* C16: after any sequence of replies every single-select question has at most
\* one toggled option, Other included, and selecting an option of a
\* single-select question clears every other toggled option and any stored
\* Other text of that question.
C16_SingleSelectExclusive == []SingleSelectAtMostOne /\ [][SelectingClears]_vars

\* C17: a submit/done/confirm reply received while no freeform text is awaited
\* closes the prompt and resolves it with one answer per header: the
\* comma-joined labels of the toggled options (the stored text for Other) when
\* something is toggled, the first option's label only when nothing is.
C17_SubmitAnswers ==
  [][\A text \in Replies :
       (QReply(text) /\ IsSubmit(text) /\ pq.awaitingOtherForQuestion = 0) =>
         /\ ~pq'.open
         /\ DOMAIN answers' = {pq.questions[qi].header : qi \in DOMAIN pq.questions}
         /\ \A qi \in DOMAIN pq.questions :
              answers'[pq.questions[qi].header] =
                IF pq.selections[qi] = <<>>
                THEN <<pq.questions[qi].options[1]>>
                ELSE Join(Labels(pq, qi, pq.selections[qi]))]_vars

\* the reply classes of the plan approval prompt, lower-cased
ClearClass == {<<"1">>, <<"clear">>, <<"clear", "context">>}
ApproveClass ==
  {<<"2">>, <<"approve">>, <<"approved">>, <<"yes">>, <<"y">>, <<"lgtm">>,
   <<"looks", "good">>, <<"ok">>, <<"go">>, <<"go", "ahead">>, <<"proceed">>}
RejectClass == {<<"3">>, <<"reject">>, <<"rejected">>, <<"no">>, <<"n">>, <<"revise">>}

\* a plan reply has been parsed
Parsed == "result" \in DOMAIN approval

C20_KeepContextAndReject ==
  Parsed =>
    LET r == approval.result
        d == approval.decision
    IN /\ (r.approved /\ "clearContext" \notin DOMAIN r) =>
            d = [behavior |-> "allow", updatedInput |-> "input",
                 clearContextOnComplete |-> FALSE, abortScheduled |-> FALSE]
       /\ ~r.approved =>
            /\ d.behavior = "deny"
            /\ ~d.clearContextOnComplete /\ ~d.abortScheduled
            /\ d.message = IF "feedback" \in DOMAIN r /\ r.feedback # <<>>
                           THEN <<"The user rejected the plan with feedback:">> \o r.feedback
                           ELSE <<"The user rejected the plan. Please revise.">>

\* a plan was rejected with the feedback "go on"
C20_Witness ==
  /\ Parsed
  /\ approval.text = <<"go", "on">>
  /\ approval.decision.behavior = "deny"
  /\ approval.decision.message = RejectedWithFeedback(<<"go", "on">>)

\* the reply approve-and-clear-context releases the gate: the run goes on
\* streaming, not cancelled in the same step, and the abort is left to a timer
ClearReplyAllows ==
  ReplyPlan("clear") =>
    LET r == session.pendingPlanApproval
    IN /\ runs[r].pc = "plan" => runs'[r].pc = "streaming"
       /\ runs'[r].ctl = runs[r].ctl
       /\ session'.abortSignaled = session.abortSignaled
       /\ timers' = timers + 1

\* the teardown that finds the clear-context flag discards the sessionId,
\* leaves a handle that is not signalled, and starts the run of the plan prompt
ClearTeardownRestarts ==
  \A r \in Runs : (TeardownStep(r) /\ session.clearContextOnComplete) =>
    /\ session'.sessionId = NoSid
    /\ ~session'.abortSignaled
    /\ ~session'.clearContextOnComplete
    /\ \E n \in Started : runs'[n].prompt = PlanPrompt

\* the run of a plan prompt creates its query without a sessionId to resume
PlanRunIsFresh ==
  \A n \in Runs : (CreateQuery(n) /\ runs[n].prompt = PlanPrompt) => runs'[n].resume = NoSid

\* C19: an approve-and-clear-context reply allows the tool call and signals the
\* cancellation only after the gate has returned; the run's teardown then
\* discards the sessionId, installs a fresh cancellation handle, puts the
\* "implement the following plan" instruction at the front of the queue, and
\* the run started for it resumes no session.
C19_ClearContextRestarts ==
  [][ClearReplyAllows /\ ClearTeardownRestarts /\ PlanRunIsFresh]_vars

\* the parts of C19 that do not depend on a plan document having been found
C19_ReplyPart == [][ClearReplyAllows]_vars
C19_FreshPart == [][PlanRunIsFresh]_vars
C19_TeardownPart ==
  [][\A r \in Runs : (TeardownStep(r) /\ session.clearContextOnComplete) =>
       /\ session'.sessionId = NoSid
       /\ ~session'.abortSignaled
       /\ ~session'.clearContextOnComplete
       /\ session.planToImplement # "null" => \E n \in Started : runs'[n].prompt = PlanPrompt]_vars

\* C21: a pending interactive prompt and a pending plan approval are never both
\* present on the Session, and whenever either is present the Session is busy.
C21_PromptsExclusiveAndBusy ==
  /\ ~(session.pendingQuestion # NoRun /\ session.pendingPlanApproval # NoRun)
  /\ ~NoPromptPending => session.busy

\* C22: session.busy is true exactly when session.query is non-null or a run
\* is being started or torn down, and session.inputChannel is non-null only
\* while busy is true.
C22_BusyIffRunHandle ==
  /\ session.busy <=>
       \/ session.query # NoRun
       \/ \E r \in Runs : runs[r].pc \in {"starting", "teardown"}
  /\ session.inputChannel # NoRun => session.busy

\* the parts of C22 (the first on a Session the registry holds: an evicted
\* Session has lost its handles while its run is still unwinding)
C22_BusyHasRun ==
  (session.resident /\ session.busy) =>
    \/ session.query # NoRun
    \/ \E r \in Runs : runs[r].pc \in {"starting", "teardown"}
C22_ChannelOnlyBusy == session.inputChannel # NoRun => session.busy

\* an error has been handled
Handled == errCase.path # "none"

\* the error text names an unrecognised session / an exceeded context window
Unrecognized == errCase.path = "result" /\ "No conversation found" \in errCase.words
Overflow == TooLong(errCase.words) /\ ~Unrecognized /\ ~errCase.signalled

\* C24: an unrecognised-session result error clears the sessionId in memory and
\* in the durable store; a context overflow, as a result error or thrown, clears
\* the sessionId, the durable record and the turn counter; any other error
\* leaves the sessionId as it was and posts the error text; an abort signalled
\* from outside posts nothing.
C24_ErrorsByClass ==
  Handled =>
    /\ Unrecognized =>
         errCase.sessionIdAfter = NoSid /\ errCase.storeAfter = NoRecord
    /\ Overflow =>
         /\ errCase.sessionIdAfter = NoSid /\ errCase.storeAfter = NoRecord
         /\ errCase.turnCountAfter = 0
    /\ (~Unrecognized /\ ~Overflow /\ ~errCase.signalled) =>
         /\ errCase.sessionIdAfter = errCase.sessionId
         /\ errCase.notice = "error text"
    /\ errCase.signalled => errCase.notice = "none"

\* C24 for the errors that are not thrown with a message naming an abort while
\* no abort was signalled
C24_WithoutUnsignalledAbort ==
  (errCase.path = "thrown" /\ "abort" \in errCase.words /\ ~errCase.signalled)
    \/ C24_ErrorsByClass

\* the step removes the Session from the registry
EvictStep == session.resident /\ ~session'.resident

\* C26: the idle sweep performs on the Session it evicts the in-memory abort
\* sequence (cancellation signalled, channel closed, run handle closed, queue
\* cleared, pending prompts cleared) and leaves the durable record as it was,
\* and no run is started afterwards on the evicted Session object.
C26_EvictionAbortsAll ==
  [][/\ EvictStep =>
          /\ \A r \in Runs : runs[r].pc \in StreamPcs => Cancelled(r)'
          /\ \A r \in Runs : runs'[r].chan.closed \/ runs[r].pc \notin ActivePcs
          /\ session'.query = NoRun /\ session'.inputChannel = NoRun
          /\ session'.messageQueue = <<>>
          /\ session'.pendingQuestion = NoRun /\ session'.pendingPlanApproval = NoRun
          /\ store' = store
     /\ (~session.resident /\ ~session'.resident) => Started = {}]_vars

\* the parts of C26 that hold: signal, closes and the durable record
C26_SignalAndCloses ==
  [][EvictStep =>
       /\ session'.query = NoRun /\ session'.inputChannel = NoRun
       /\ \A r \in Runs : runs'[r].ctl # "live"
       /\ store' = store]_vars

\* ------------------------------------------------ properties of BgSpec
\* the background Sessions an abort of background tasks affects in this step
AffectedByTask(taskId) ==
  {bgTasks[i].session : i \in {j \in DOMAIN bgTasks : bgTasks[j].id = taskId}}
AffectedByAll == {bgTasks[i].session : i \in DOMAIN bgTasks}

\* the steps of the foreground abort, seen on one Session object across a step
SignalAndCloses(o) ==
  /\ objs[o].abortController \in objs'[o].aborted
  /\ objs[o].inputChannel # "null" => objs'[o].inputChannel = "closed"
  /\ objs[o].query # "null" => objs'[o].query = "closed"
QueueAndPromptsCleared(o) ==
  /\ objs'[o].messageQueue = 0
  /\ ~objs'[o].pendingQuestion /\ ~objs'[o].pendingPlanApproval
FreshHandle(o) ==
  /\ objs'[o].abortController # objs[o].abortController
  /\ objs'[o].abortController \notin objs'[o].aborted
FullAbortSequence(o) == SignalAndCloses(o) /\ QueueAndPromptsCleared(o) /\ FreshHandle(o)

AbortTaskStep(taskId) == objs' = abortBgTask(objs, bgTasks, taskId) /\ objs' # objs
AbortAllStep == bgTasks # <<>> /\ bgTasks' = <<>> /\ objs' # objs

\* C25: abortBgTask and abortAllBgTasks perform, on every background Session
\* they affect, the whole sequence of the foreground abort: the abort signal,
\* the close of the Handoff Channel and of the run handle, the queue and the
\* pending prompts cleared, and a fresh abort handle installed.
C25_BgAbortFullSequence ==
  [][/\ \A taskId \in 1..MaxObjs :
          AbortTaskStep(taskId) => \A o \in AffectedByTask(taskId) : FullAbortSequence(o)
     /\ AbortAllStep => \A o \in AffectedByAll : FullAbortSequence(o)]_vars

\* what holds of both operations: every step of the sequence but the fresh handle
C25_AllButFreshHandle ==
  [][/\ \A taskId \in 1..MaxObjs :
          AbortTaskStep(taskId) => \A o \in AffectedByTask(taskId) : FullAbortSequence(o)
     /\ AbortAllStep =>
          \A o \in AffectedByAll : SignalAndCloses(o) /\ QueueAndPromptsCleared(o)]_vars

\* the foreground abort itself performs the whole sequence
C25_ForegroundReference ==
  [][(sessions # NoRun /\ sessions' = sessions /\ objs'[sessions] # objs[sessions]
        /\ objs[sessions].abortController \in objs'[sessions].aborted
        /\ objs[sessions].abortController \notin objs[sessions].aborted)
      => FullAbortSequence(sessions)]_vars

\* a background Session whose controller was signalled and whose channel was closed
C25_Witness ==
  \E o \in DOMAIN objs :
    /\ objs[o].isBackground
    /\ objs[o].aborted # {}
    /\ objs[o].inputChannel = "closed"

GateCallOn(o) == gate'.n = gate.n + 1 /\ gate'.obj = o

\* C30: a blocking tool gated on a Session flagged as a background task stores
\* no pending prompt and returns without waiting for the user: a question is
\* allowed with the first option of every question as its answer, a plan exit
\* is allowed with its input unchanged and the context is not cleared.
C30_BackgroundGateNeverWaits ==
  [][\A o \in DOMAIN objs :
       (GateCallOn(o) /\ objs[o].isBackground) =>
         /\ gate'.returned /\ gate'.behavior = "allow"
         /\ ~objs'[o].pendingQuestion /\ ~objs'[o].pendingPlanApproval
         /\ gate'.updatedInput.input = "input"
         /\ gate'.tool = "AskUserQuestion" =>
              \A i \in DOMAIN gate'.questions :
                /\ "answers" \in DOMAIN gate'.updatedInput
                /\ gate'.updatedInput.answers[gate'.questions[i].header]
                     = gate'.questions[i].options[1]
         /\ gate'.tool = "ExitPlanMode" =>
              /\ gate'.updatedInput = [input |-> "input"]
              /\ objs'[o].clearContextOnComplete = objs[o].clearContextOnComplete
              /\ objs'[o].aborted = objs[o].aborted]_vars

\* a question with two questions has been gated on a background Session
C30_Witness ==
  /\ gate.n > 0
  /\ objs[gate.obj].isBackground
  /\ gate.tool = "AskUserQuestion"
  /\ Len(gate.questions) = NQuestions
  /\ gate.returned

\* a plan exit has been gated on a background Session
C30_PlanWitness ==
  /\ gate.n > 0
  /\ objs[gate.obj].isBackground
  /\ gate.tool = "ExitPlanMode"
  /\ gate.returned

\* ------------------------------------------------ properties of ToolSpec
\* C29: for every tool-call-id the paths of a run have observed, in whatever
\* order and number, exactly one tool card has been created and the tool's
\* counter (and log) has been incremented exactly once.
C29_OneCardPerToolCall ==
  \A id \in ToolIds :
    observed[id] > 0 =>
      /\ created[id] = 1
      /\ ToolName(id) \in DOMAIN toolCounts => toolCounts[ToolName(id)] = 1

\* what holds: an observation of an id whose card is in the map creates and
\* counts nothing, and the first observation of an id creates its first card
C29_UpsertWhileCardPresent ==
  [][\A id \in ToolIds :
       /\ (id \in DOMAIN toolCards /\ observed'[id] # observed[id]) =>
            /\ created' = created
            /\ toolCounts' = toolCounts /\ toolLog' = toolLog
       /\ (observed[id] = 0 /\ observed'[id] = 1) =>
            /\ created'[id] = 1
            /\ toolCounts'[ToolName(id)] = IF ToolName(id) \in DOMAIN toolCounts
                                           THEN toolCounts[ToolName(id)] + 1 ELSE 1]_vars

\* an id observed three times, last by the gate, which found its card
C29_Witness ==
  \E id \in ToolIds :
    /\ observed[id] = MaxObserved /\ created[id] = 1
    /\ lastPath = "gate"
    /\ id \in DOMAIN toolCards /\ toolCards[id].detail = "detail"

\* ------------------------------------------------ properties of EditSpec
\* C27: within a run at most one doEdit is in flight and at most one flush
\* timer is armed at any time, and a doEdit that completes after text has
\* accumulated during its flight schedules exactly one follow-up flush.
C27_SingleFlushInFlight ==
  /\ Len(edits) <= 1
  /\ Cardinality(editTimers) <= 1
  /\ flushLog.lastFlush.text > flushLog.lastFlush.len => flushLog.lastFlush.followUps = 1

\* a flush completed after text had accumulated, and its follow-up is armed
C27_Witness ==
  /\ flushLog.lastFlush.text > flushLog.lastFlush.len
  /\ flushLog.lastFlush.followUps = 1
  /\ Cardinality(editTimers) = 1
  /\ mainPc.pc = "loop"

\* a doEdit flushes text in this step
FlushStart == flushLog'.flushes = flushLog.flushes + 1

\* C28: two successive flushes of the same live message start at least the
\* minimum interval apart, and at any time T after the first delta of a turn
\* the flushes of the turn, and its outbound edits, number at most
\* T / interval + 1.
C28_FlushesRateLimited ==
  [][/\ FlushStart => (state.lastEditTime = 0 \/ now - state.lastEditTime >= Interval)
     /\ flushLog'.firstDelta # -1 =>
          /\ (flushLog'.flushes - 1) * Interval <= now' - flushLog'.firstDelta
          /\ (flushLog'.editCalls - 1) * Interval <= now' - flushLog'.firstDelta]_vars

\* the third flush of one message has started
C28_Witness ==
  /\ flushLog.flushes = 3
  /\ state.lastEditTime = now
  /\ Len(edits) = 1

\* C23: when a turn is finalized, by a full assistant message or by the
\* teardown, the message in the thread carries the whole text accumulated for
\* the turn.
C23_FinalEditHasFullText ==
  flushLog.lastTurn.delivered = flushLog.lastTurn.text

\* what holds: the whole text is delivered unless the final edit fails with an
\* error other than a deleted message
C23_UnlessFinalEditFails ==
  ~flushLog.lastTurn.transient => flushLog.lastTurn.delivered = flushLog.lastTurn.text

\* a turn whose text grew after its last flush has been finalized
C23_Witness ==
  /\ flushLog.turns > 0
  /\ flushLog.lastTurn.text > flushLog.lastFlush.len
  /\ flushLog.lastFlush.len > 0

\* ------------------------------------- properties of BgSpec, continued
BackgroundCall == bgResult' # bgResult /\ bgResult'.op = "background"
ForegroundCall == bgResult' # bgResult /\ bgResult'.op = "foreground"

\* C31: backgroundSession succeeds only for a busy registered Session, and
\* otherwise returns null and changes nothing; on success the task's id is
\* greater than every id assigned before in the thread, the Session leaves the
\* sessions map and the task is listed. The Session createForegroundSession
\* registers has the detached Session's remote id and cost and is idle.
C31_Backgroundize ==
  [][/\ BackgroundCall =>
          IF sessions # NoRun /\ objs[sessions].busy
          THEN /\ bgResult'.task # 0
               /\ \A id \in bgResult.assigned : bgResult'.task > id
               /\ sessions' = NoRun
               /\ \E i \in DOMAIN bgTasks' :
                    bgTasks'[i] = [id |-> bgResult'.task, session |-> sessions]
               /\ objs'[sessions].isBackground
          ELSE /\ bgResult'.task = 0
               /\ UNCHANGED <<objs, sessions, bgTasks, bgIdCounters>>
     /\ ForegroundCall =>
          /\ sessions' = Len(objs')
          /\ objs'[Len(objs')].sessionId = objs[bgResult'.inherit].sessionId
          /\ objs'[Len(objs')].totalCost = objs[bgResult'.inherit].totalCost
          /\ ~objs'[Len(objs')].busy
          /\ objs'[Len(objs')].inputChannel = "null"
          /\ objs'[Len(objs')].query = "null"
          /\ objs'[Len(objs')].messageQueue = 0
          /\ ~objs'[Len(objs')].isBackground]_vars

\* a companion Session has inherited a remote id and a cost
C31_Witness ==
  /\ bgResult.op = "foreground"
  /\ objs[bgResult.inherit].sessionId # NoSid
  /\ objs[bgResult.inherit].totalCost > 0
  /\ objs[bgResult.inherit].isBackground

\* a second task has been assigned its id; a call has returned null
C31_SecondTask == bgResult.op = "background" /\ Cardinality(bgResult.assigned) = 2
C31_NullReturned == bgResult.op = "background" /\ bgResult.task = 0 /\ bgTasks # <<>>

\* C32: a background task is listed for its thread only while its Session is
\* busy or has a pending prompt.
C32_ListedOnlyWhileBusy ==
  \A i \in DOMAIN bgTasks :
    \/ objs[bgTasks[i].session].busy
    \/ objs[bgTasks[i].session].pendingQuestion
    \/ objs[bgTasks[i].session].pendingPlanApproval

\* the abort half of C32: abortBgTask takes the task off the list
C32_AbortRemovesTask ==
  [][\A taskId \in 1..MaxObjs :
       AbortTaskStep(taskId) => \A i \in DOMAIN bgTasks' : bgTasks'[i].id # taskId]_vars

\* ----------------------- properties of PromptSpec, continued
\* a reply made of numbers and separators only, sent while no text is awaited
NumericReply(text) ==
  /\ pq.open
  /\ pq.awaitingOtherForQuestion = 0
  /\ IsNumeric(text)
  /\ QReply(text)

\* C33: while a prompt is pending and no freeform text is awaited, a reply
\* made only of numbers, separated by commas or spaces, toggles each option
\* it references in turn (a number that references no option is skipped) and
\* does nothing else: the prompt stays open and nothing is resolved.
C33_NumericReplyToggles ==
  [][\A text \in Replies :
       NumericReply(text) =>
         /\ pq' = ToggleAll(pq, Nums(text))
         /\ answers' = answers]_vars

\* the same for the numeric replies that the "number + text" branch does not
\* take first: those whose first number is not followed by a space and a
\* further word, or does not reference an Other option
C33_UnlessShorthand ==
  [][\A text \in Replies :
       /\ NumericReply(text)
       /\ ~(/\ IsShorthand(text)
            /\ HasOption(pq.flatOptions, NumVal[text[1]])
            /\ FindOption(pq.flatOptions, NumVal[text[1]]).isOther)
       => /\ pq' = ToggleAll(pq, Nums(text))
          /\ answers' = answers]_vars

\* the reply "3 1" has been stored as the text "1" of the Other option 3
C33_SpaceSeparatedTaken ==
  /\ pq.open
  /\ 1 \in DOMAIN pq.otherText
  /\ pq.otherText[1] = <<"1">>
  /\ pq.selections[1] = <<3>>
  /\ pq.awaitingOtherForQuestion = 0


\* ----------------------- properties of Spec, continued
\* C34: whenever the Session is idle its pending queue is empty, under every
\* interleaving of follow-up handlers (suspended while the prompt is built)
\* with teardowns: no instruction is queued with nothing to dispatch it.
C34_IdleQueueEmpty == (session.resident /\ ~session.busy) => session.messageQueue = <<>>

\* the instruction of C34 is stranded: queued, the Session idle, and no run,
\* teardown or suspended handler left that could dispatch it
C34_Stranded ==
  /\ session.resident
  /\ ~session.busy
  /\ session.messageQueue # <<>>
  /\ ActiveRuns = {}
  /\ handlers.busy = 0 /\ handlers.idle = 0


\* C35: every instruction pushed on a run's channel is yielded to the agent
\* runtime as a user turn or returned to the queue by the teardown's drain:
\* no run has read an instruction from its channel and discarded it.
C35_NoInstructionDiscarded == \A r \in Runs : ~runs[r].lost

\* what remains of C35 once the remote id is known: a run that has seen its
\* initialization event on a resident Session discards nothing afterwards
C35_AfterInit ==
  [][\A r \in Runs :
       (runs[r].inited /\ session.sessionId # NoSid /\ ~runs[r].lost) => ~runs'[r].lost]_vars


\* an abort or a reset closes the channel the Session has registered: a run
\* whose channel is closed before its teardown has been hit by one of them
AbortedOrReset(r) == runs[r].pc \in {"starting"} \cup StreamPcs /\ runs[r].chan.closed

\* C36: an abort or reset issued at any point of a run's lifetime, the
\* starting phase included, cancels that run: the run is created with the
\* handle that was signalled and does not stream afterwards.
C36_AbortCancelsRun ==
  \A r \in Runs : (AbortedOrReset(r) /\ runs[r].pc \in StreamPcs) => Cancelled(r)

\* the part of C36 after the starting phase: an abort or reset that hits a run
\* whose query exists cancels it in the same step
C36_AfterCreation ==
  [][\A r \in Runs :
       (runs[r].pc \in StreamPcs /\ ~runs[r].chan.closed /\ runs'[r].pc \in StreamPcs
        /\ runs'[r].chan.closed) => runs'[r].ctl = "cancelled"]_vars


\* the instructions left in the buffer of run r's channel
Buffered(r) == {runs[r].chan.buffer[i] : i \in DOMAIN runs[r].chan.buffer}

\* the teardown of a run that !abort has hit: the abort closed its channel and
\* left the Session busy
AbortedTeardown(r) ==
  /\ runs[r].pc = "teardown"
  /\ runs'[r].pc = "done"
  /\ runs[r].chan.closed
  /\ session.resident
  /\ session.busy

\* C37: after !abort on a busy Session, no instruction sent before the abort,
\* queued or pushed on the channel and not consumed, is later dispatched as a
\* run by the aborted run's teardown.
C37_AbortDropsPending ==
  [][\A r \in Runs :
       AbortedTeardown(r) =>
         \A n \in Runs :
           (runs[n].pc = "none" /\ runs'[n].pc = "starting") =>
             runs'[n].prompt \notin Buffered(r)]_vars

\* the global index of question qi's Other option in the stored prompt
OtherOf(qi) ==
  (CHOOSE i \in DOMAIN pq.flatOptions :
     pq.flatOptions[i].questionIndex = qi /\ pq.flatOptions[i].isOther)

OtherToggled(qi) == SetHas(pq.selections[qi], pq.flatOptions[OtherOf(qi)].globalIndex)

\* C38: for a pending prompt, after any sequence of replies: when freeform
\* text is awaited for question q, q's Other option is toggled; and a question
\* has Other text stored only when its Other option is toggled.
C38_OtherConsistent ==
  pq.open =>
    /\ pq.awaitingOtherForQuestion # 0 => OtherToggled(pq.awaitingOtherForQuestion)
    /\ \A qi \in DOMAIN pq.otherText : OtherToggled(qi)

\* the two halves of C38
C38_AwaitedIsToggled ==
  pq.open => (pq.awaitingOtherForQuestion # 0 => OtherToggled(pq.awaitingOtherForQuestion))
C38_TextOnlyIfToggled == pq.open => \A qi \in DOMAIN pq.otherText : OtherToggled(qi)


\* the remote id of the durable record, NoSid when the thread has no record
PersistedSid == IF store = NoRecord THEN NoSid ELSE store.sid

\* C39: whenever the Session is resident and no run on it is tearing down,
\* its in-memory remote id and the durable record's id agree (both absent, or
\* equal), so that eviction and rehydration never bring back a discarded id.
C39_RemoteIdAgrees ==
  (session.resident /\ \A r \in Runs : runs[r].pc # "teardown") =>
    session.sessionId = PersistedSid

\* the consequence C39 names: a Session that had discarded its remote id is
\* idle, and the record a rehydration would read still carries an id
C39_DiscardedIdKept ==
  /\ session.resident
  /\ ~session.busy
  /\ ActiveRuns = {}
  /\ session.sessionId = NoSid
  /\ PersistedSid # NoSid


C40_UserNext ==
  /\ runs[2].pc = "done"
  /\ runs[3].pc = "starting"
  /\ runs[3].prompt.kind = "user"
  /\ used = MaxRare - ChainBudget + 2
  /\ store.cost >= 2


====
